---- MODULE Spec2Model ----
(***************************************************************************)
(* JWE token protocol of the crypto SDK (JweToken.ts): encrypt, the three  *)
(* serializations, deserialize and decrypt, over symbolic buffers, texts   *)
(* and headers.                                                            *)
(*                                                                         *)
(* Data representation                                                     *)
(*   text   (a JS string or JSON member)                                   *)
(*            [k |-> "undef"]            the member is absent (undefined)  *)
(*            [k |-> "b64", buf |-> b]   base64url.encode(b)               *)
(*            [k |-> "json", hdr |-> h]  JSON.stringify(h.toJSON())        *)
(*            [k |-> "garbage"]          text that is no JSON              *)
(*   buffer   [k |-> "bytes", v |-> s]   raw bytes, s a sequence of        *)
(*                                       symbolic byte records             *)
(*            [k |-> "utf8", text |-> t] the UTF-8 bytes of text t         *)
(*   header   (TSMap) a sequence of <<key, value>> pairs, insertion order  *)
(***************************************************************************)
EXTENDS Integers, Sequences, FiniteSets, TLC

VARIABLES self, tok, wire, parsed, plain, calls, bridge, pairwise, jose, vault, builder

vars == <<self, tok, wire, parsed, plain, calls, bridge, pairwise, jose, vault, builder>>

(***************************************************************************)
(* Bounds                                                                  *)
(***************************************************************************)
MaxRecipients == 2
MaxPayload == 1

(***************************************************************************)
(* Program constants                                                       *)
(***************************************************************************)
TagLength == 16

Undefined == "~undefined"

Alg == "alg"
Enc == "enc"
Kid == "kid"

RsaOaep256 == "RSA-OAEP-256"
RsaOaep == "RSA-OAEP"
AesGcm256 == "A256GCM"

JweGeneralJson == "JweGeneralJson"
JweFlatJson == "JweFlatJson"
JweCompactJson == "JweCompactJson"

ProtectionFormat == {JweGeneralJson, JweFlatJson, JweCompactJson}

(***************************************************************************)
(* JS truthiness of a string value and of a text                           *)
(***************************************************************************)
TruthyStr(s) == s # Undefined /\ s # ""

EmptyBuf == [k |-> "bytes", v |-> <<>>]

Undef == [k |-> "undef"]

EmptyText == [k |-> "b64", buf |-> EmptyBuf]

TruthyText(t) == t # Undef /\ t # EmptyText

Ok(v) == [ok |-> TRUE, val |-> v]

Throw(type, msg) == [ok |-> FALSE, err |-> [type |-> type, msg |-> msg]]

(***************************************************************************)
(* Headers (TSMap<string, string>)                                         *)
(***************************************************************************)
RECURSIVE HeaderIndex(_, _, _)
HeaderIndex(h, key, i) ==
  IF i > Len(h) THEN 0
  ELSE IF h[i][1] = key THEN i
  ELSE HeaderIndex(h, key, i + 1)

HeaderGet(h, key) ==
  LET i == HeaderIndex(h, key, 1) IN IF i = 0 THEN Undefined ELSE h[i][2]

HeaderSet(h, key, value) ==
  LET i == HeaderIndex(h, key, 1) IN
  IF i = 0 THEN Append(h, <<key, value>>)
  ELSE [h EXCEPT ![i] = <<key, value>>]

NoHeader == [def |-> FALSE, map |-> <<>>]

SomeHeader(h) == [def |-> TRUE, map |-> h]

(***************************************************************************)
(* base64url and JSON conversions                                          *)
(***************************************************************************)
Utf8(t) == IF t = EmptyText THEN EmptyBuf ELSE [k |-> "utf8", text |-> t]

Base64UrlEncode(b) == [k |-> "b64", buf |-> b]

Base64UrlToBuffer(t) ==
  IF t = Undef THEN Throw("TypeError", <<"Cannot read property 'toString' of undefined">>)
  ELSE IF t.k = "b64" THEN Ok(t.buf)
  ELSE Ok([k |-> "bytes", v |-> <<[b |-> -1]>>])

Base64UrlDecode(t) ==
  IF t.k = "b64" /\ t.buf.k = "utf8" THEN t.buf.text
  ELSE IF t = EmptyText THEN EmptyText
  ELSE [k |-> "garbage"]

DefinedEntry(e) == e[2] # Undefined

JsonStringify(h) == [k |-> "json", hdr |-> SelectSeq(h, DefinedEntry)]

JsonParse(t) ==
  IF t.k = "json" THEN Ok(t.hdr)
  ELSE Throw("SyntaxError", <<"Unexpected token in JSON">>)

\* JoseHelpers.headerHasElements applied to a header object
headerHasElements(mh) == mh.def /\ Len(mh.map) > 0

\* JoseHelpers.headerHasElements applied to a JSON member holding a string
textHasElements(t) == TruthyText(t)

encodeHeader(h, toBase64Url) ==
  IF toBase64Url THEN Base64UrlEncode(Utf8(JsonStringify(h)))
  ELSE JsonStringify(h)

\* JoseHelpers.getOptionsProperty for the header options (objects are truthy)
getOptionsProperty(initialOption, overrideOption) ==
  IF overrideOption.def THEN overrideOption ELSE initialOption

(***************************************************************************)
(* CryptoHelpers.jwaToWebCrypto: compact id -> algorithm descriptor        *)
(***************************************************************************)
NoHash == [obj |-> FALSE, name |-> Undefined]

HashObj(n) == [obj |-> TRUE, name |-> n]

HashStr(n) == [obj |-> FALSE, name |-> n]

NoDescriptor ==
  [name |-> Undefined, hash |-> NoHash, modulusLength |-> 0, length |-> 0,
   tagLength |-> 0, iv |-> EmptyBuf, additionalData |-> EmptyBuf, namedCurve |-> Undefined]

\* String.toUpperCase on the texts that are not upper case already
ToUpperCase(s) ==
  CASE s = "EdDSA" -> "EDDSA"
    [] s = "es256k" -> "ES256K"
    [] s = "rsa-oaep-256" -> "RSA-OAEP-256"
    [] s = "a128gcm" -> "A128GCM"
    [] s = "hs384" -> "HS384"
    [] s = "es256" -> "ES256"
    [] s = "none" -> "NONE"
    [] s = "RSASSA-PKCS1-v1_5" -> "RSASSA-PKCS1-V1_5"
    [] s = "ecdsa" -> "ECDSA"
    [] s = "rsa-oaep" -> "RSA-OAEP"
    [] s = "aes-gcm" -> "AES-GCM"
    [] s = "hmac" -> "HMAC"
    [] s = "sha-256" -> "SHA-256"
    [] s = "sha-512" -> "SHA-512"
    [] s = "ecdh" -> "ECDH"
    [] OTHER -> s

\* the digits of the compact id: jwa.replace('RS', ''), regex \d+
IdDigits(jwa) ==
  CASE jwa \in {"RS256", "HS256", "A256GCM"} -> "256"
    [] jwa \in {"RS384", "HS384"} -> "384"
    [] jwa \in {"RS512", "HS512"} -> "512"
    [] jwa = "A128GCM" -> "128"
    [] jwa = "A192GCM" -> "192"
    [] OTHER -> ""

ParseInt(d) ==
  CASE d = "128" -> 128 [] d = "192" -> 192 [] d = "256" -> 256
    [] d = "384" -> 384 [] d = "512" -> 512 [] OTHER -> 0

ShaOf(d) ==
  CASE d = "256" -> "SHA-256" [] d = "384" -> "SHA-384" [] d = "512" -> "SHA-512"
    [] OTHER -> "SHA-"

jwaToWebCrypto(jwaIn, iv, aad) ==
  IF jwaIn = Undefined
  THEN Throw("TypeError", <<"Cannot read property 'toUpperCase' of undefined">>)
  ELSE
  LET jwa == ToUpperCase(jwaIn) IN
  CASE jwa \in {"RS256", "RS384", "RS512"} ->
         Ok([NoDescriptor EXCEPT !.name = "RSASSA-PKCS1-v1_5", !.modulusLength = 2048,
                                 !.hash = HashObj(ShaOf(IdDigits(jwa)))])
    [] jwa \in {RsaOaep, RsaOaep256} ->
         Ok([NoDescriptor EXCEPT !.name = "RSA-OAEP", !.modulusLength = 2048,
                                 !.hash = HashStr("SHA-256")])
    [] jwa \in {"A128GCM", "A192GCM", "A256GCM"} ->
         Ok([NoDescriptor EXCEPT !.name = "AES-GCM", !.iv = iv, !.additionalData = aad,
                                 !.tagLength = 128, !.length = ParseInt(IdDigits(jwa))])
    [] jwa = "ES256K" ->
         Ok([NoDescriptor EXCEPT !.name = "ECDSA", !.namedCurve = "secp256k1",
                                 !.hash = HashObj("SHA-256")])
    [] jwa = "EDDSA" ->
         Ok([NoDescriptor EXCEPT !.name = "EdDSA", !.namedCurve = "ed25519",
                                 !.hash = HashObj("SHA-256")])
    [] jwa \in {"SHA-256", "SHA-384", "SHA-512"} ->
         Ok([NoDescriptor EXCEPT !.hash = HashObj(jwa)])
    [] jwa \in {"HS256", "HS384", "HS512"} ->
         Ok([NoDescriptor EXCEPT !.name = "HMAC", !.hash = HashObj(ShaOf(IdDigits(jwa)))])
    [] OTHER -> Throw("Error", <<"Algorithm '", jwa, "' is not supported">>)

(***************************************************************************)
(* CryptoHelpers.webCryptoToJwa: algorithm descriptor -> compact id        *)
(***************************************************************************)
\* String.replace('SHA-', '')
StripSha(s) ==
  CASE s = "SHA-256" -> "256" [] s = "SHA-384" -> "384" [] s = "SHA-512" -> "512"
    [] OTHER -> s

\* algorithm.hash || algorithm.name || 'SHA-256'
HashOrName(algorithm) ==
  IF algorithm.hash.obj \/ TruthyStr(algorithm.hash.name) THEN algorithm.hash
  ELSE IF TruthyStr(algorithm.name) THEN HashStr(algorithm.name)
  ELSE HashStr("SHA-256")

\* CryptoHelpers.getHash
getHash(hash) ==
  IF TruthyStr(hash.name) THEN Ok(StripSha(ToUpperCase(hash.name)))
  ELSE IF hash.obj
  THEN Throw("TypeError", <<"(hash || 'SHA-256').toUpperCase is not a function">>)
  ELSE Ok(StripSha(ToUpperCase("SHA-256")))

\* the members of JSON.stringify(algorithm), the name as a piece of its own
StringifyAlgorithm(algorithm) ==
  <<"{">>
  \o (IF algorithm.name # Undefined THEN <<"name:", algorithm.name>> ELSE <<>>)
  \o (IF algorithm.hash.obj THEN <<"hash:{name:", algorithm.hash.name, "}">>
      ELSE IF algorithm.hash.name # Undefined THEN <<"hash:", algorithm.hash.name>>
      ELSE <<>>)
  \o (IF algorithm.length # 0 THEN <<"length:", ToString(algorithm.length)>> ELSE <<>>)
  \o <<"}">>

webCryptoToJwa(algorithm) ==
  IF algorithm.name = Undefined
  THEN Throw("TypeError", <<"Cannot read property 'toUpperCase' of undefined">>)
  ELSE
  LET hash == HashOrName(algorithm)
      name == ToUpperCase(algorithm.name)
  IN CASE name = "RSASSA-PKCS1-V1_5" ->
            IF getHash(hash).ok THEN Ok("RS" \o getHash(hash).val) ELSE getHash(hash)
       [] name = "ECDSA" -> Ok("ES256K")
       [] name = "EDDSA" -> Ok("EdDSA")
       [] name = "RSA-OAEP-256" -> Ok("RSA-OAEP-256")
       [] name = "RSA-OAEP" -> Ok("RSA-OAEP-256")
       [] name = "AES-GCM" ->
            Ok("A" \o ToString(IF algorithm.length # 0 THEN algorithm.length ELSE 128)
                   \o "GCM")
       [] name = "HMAC" -> Ok("HS256")
       [] name \in {"SHA-256", "SHA-384", "SHA-512"} ->
            IF hash.obj THEN Throw("TypeError", <<"hash.toUpperCase is not a function">>)
            ELSE Ok(ToUpperCase(hash.name))
       [] OTHER -> Throw("Error", <<"Algorithm '">> \o StringifyAlgorithm(algorithm)
                                  \o <<"' is not supported">>)

(***************************************************************************)
(* CryptoHelpers.getSubtleCryptoForAlgorithm: the request it makes to the  *)
(* crypto factory                                                          *)
(***************************************************************************)
\* cryptoFactory.get<kind>(jwa, scope, keyReference)
cryptoFactoryGet(kind, jwa, scope, keyReference) ==
  [kind |-> kind, jwa |-> jwa, scope |-> scope, keyReference |-> keyReference]

getSubtleCryptoForAlgorithm(algorithm, scope, keyReference) ==
  LET jwa == webCryptoToJwa(algorithm)
      name == ToUpperCase(algorithm.name)
  IN IF ~jwa.ok THEN jwa
     ELSE CASE name \in {"RSASSA-PKCS1-V1_5", "ECDSA", "EDDSA"} ->
                 Ok(cryptoFactoryGet("MessageSigner", jwa.val, scope, keyReference))
            [] name \in {"RSA-OAEP", "RSA-OAEP-256"} ->
                 Ok(cryptoFactoryGet("KeyEncrypter", jwa.val, scope, keyReference))
            [] name = "AES-GCM" ->
                 Ok(cryptoFactoryGet("SymmetricEncrypter", jwa.val, scope, keyReference))
            [] name = "HMAC" ->
                 Ok(cryptoFactoryGet("MessageAuthenticationCodeSigner", jwa.val, scope,
                                     keyReference))
            [] name \in {"SHA-256", "SHA-384", "SHA-512"} ->
                 Ok(cryptoFactoryGet("MessageDigest", jwa.val, scope, keyReference))
            [] OTHER -> Throw("Error", <<"Algorithm '">> \o StringifyAlgorithm(algorithm)
                                       \o <<"' is not supported. Should be unreachable">>)

(***************************************************************************)
(* Keys and the primitive adapter reached through SubtleCryptoExtension    *)
(***************************************************************************)
\* recipient keys: the public JWK; the key store holds the private half
\* under the reference named by id, with the same kid
K1 == [id |-> "k1", kty |-> "RSA", kid |-> "kid1", alg |-> RsaOaep256]

K2 == [id |-> "k2", kty |-> "RSA", kid |-> "kid2", alg |-> Undefined]

K3 == [id |-> "k3", kty |-> "RSA", kid |-> Undefined, alg |-> RsaOaep]

K4 == [id |-> "k4", kty |-> "EC", kid |-> "kid4", alg |-> Undefined]

PublicKeys == {K1, K2, K3, K4}

KeyReferences == {k.id : k \in PublicKeys}

keyStoreGet(ref) == CHOOSE k \in PublicKeys : k.id = ref

Byte(n) == [b |-> n]

Bytes(s) == [k |-> "bytes", v |-> s]

\* encryptByJwk with a key-encryption descriptor: the content key wrapped
\* under the recipient's public key
encryptByJwkWrap(algorithm, publicKey, cek) ==
  IF algorithm.name = "RSA-OAEP" /\ publicKey.kty = "RSA"
  THEN Ok(Bytes(<<[wrap |-> cek, under |-> publicKey.id]>>))
  ELSE Throw("OperationError", <<"key and algorithm do not match">>)

\* decryptByKeyStore: unwraps with the private key behind the reference;
\* any other input makes the adapter's promise reject
decryptByKeyStore(algorithm, keyReference, cipher) ==
  IF /\ algorithm.name = "RSA-OAEP"
     /\ keyStoreGet(keyReference).kty = "RSA"
     /\ cipher.k = "bytes"
     /\ Len(cipher.v) = 1
     /\ DOMAIN cipher.v[1] = {"wrap", "under"}
     /\ cipher.v[1].under = keyReference
  THEN Ok(cipher.v[1].wrap)
  ELSE Throw("OperationError", <<"The operation failed for an operation-specific reason">>)

\* AES-GCM: the cipher output is the enciphered payload followed by the
\* authentication tag of tagLength / 8 bytes
GcmTag(algorithm, cek, payload) ==
  [i \in 1..(algorithm.tagLength \div 8) |->
     [mac |-> <<cek, algorithm.iv, algorithm.additionalData, payload>>, n |-> i]]

GcmBody(algorithm, cek, payload) ==
  [i \in 1..Len(payload) |-> [ct |-> payload[i], key |-> cek, iv |-> algorithm.iv]]

encryptByJwkContent(algorithm, cek, payload) ==
  IF algorithm.name = "AES-GCM"
  THEN Ok(GcmBody(algorithm, cek, payload) \o GcmTag(algorithm, cek, payload))
  ELSE Throw("OperationError", <<"key and algorithm do not match">>)

decryptByJwk(algorithm, cek, data) ==
  LET n == Len(data) - (algorithm.tagLength \div 8)
      body == SubSeq(data, 1, n)
      wellFormed == \A i \in 1..n : DOMAIN body[i] = {"ct", "key", "iv"}
      payload == [i \in 1..n |-> body[i].ct]
  IN IF /\ algorithm.name = "AES-GCM"
        /\ n >= 0
        /\ wellFormed
        /\ data = GcmBody(algorithm, cek, payload) \o GcmTag(algorithm, cek, payload)
     THEN Ok(payload)
     ELSE Throw("OperationError", <<"The operation failed for an operation-specific reason">>)

(***************************************************************************)
(* JweToken                                                                *)
(***************************************************************************)
NewRecipient == [header |-> NoHeader, encrypted_key |-> EmptyBuf]

NewToken ==
  [protected |-> <<>>, unprotected |-> <<>>, iv |-> EmptyBuf, aad |-> EmptyBuf,
   ciphertext |-> EmptyBuf, tag |-> EmptyBuf, recipients |-> <<>>,
   format |-> JweGeneralJson]

NoError == [type |-> "", msg |-> <<>>]

\* the key chosen to decide the key encryption algorithm: the first
\* recipient declaring RSA-OAEP-256, otherwise the first recipient
RECURSIVE FirstOaep256(_, _)
FirstOaep256(recipients, i) ==
  IF i > Len(recipients) THEN 1
  ELSE IF recipients[i].alg = RsaOaep256 THEN i
  ELSE FirstOaep256(recipients, i + 1)

\* the recipient loop adding each new entry in front of the earlier ones
RECURSIVE WrapRecipientsNewestFirst(_, _, _, _, _)
WrapRecipientsNewestFirst(recipients, algorithm, cek, inx, acc) ==
  IF inx > Len(recipients) THEN Ok(acc)
  ELSE LET publicKey == recipients[inx]
           wrapped == encryptByJwkWrap(algorithm, publicKey, cek)
       IN IF ~wrapped.ok THEN wrapped
          ELSE WrapRecipientsNewestFirst(recipients, algorithm, cek, inx + 1,
                 <<[header |-> SomeHeader(<<<<Kid, publicKey.kid>>>>),
                    encrypted_key |-> wrapped.val]>> \o acc)

\* the recipient loop of encrypt: wraps the content key once per public key,
\* in input order; stops at the first wrap that throws
RECURSIVE WrapRecipients(_, _, _, _, _)
WrapRecipients(recipients, algorithm, cek, inx, acc) ==
  IF inx > Len(recipients) THEN Ok(acc)
  ELSE LET publicKey == recipients[inx]
           wrapped == encryptByJwkWrap(algorithm, publicKey, cek)
       IN IF ~wrapped.ok THEN wrapped
          ELSE WrapRecipients(recipients, algorithm, cek, inx + 1,
                 Append(acc, [header |-> SomeHeader(<<<<Kid, publicKey.kid>>>>),
                              encrypted_key |-> wrapped.val]))

\* JweToken.encrypt; yields the outcome and the options object as the call
\* leaves it (the protected header of the options is the object the token's
\* protected header is set on)
encrypt(this, recipients, payload, genKey, genIv) ==
  LET options == this.options
      contentEncryptionAlgorithm ==
        IF TruthyStr(options.contentEncryptionAlgorithm)
        THEN options.contentEncryptionAlgorithm ELSE AesGcm256
      randomGenerator == jwaToWebCrypto(contentEncryptionAlgorithm, EmptyBuf, EmptyBuf)
      contentEncryptionKey == genKey
      iv == genIv
      publicKey == recipients[FirstOaep256(recipients, 1)]
      keyEncryptionAlgorithm ==
        IF TruthyStr(publicKey.alg) THEN publicKey.alg ELSE RsaOaep256
      optUnprotected == getOptionsProperty(options.unprotected, NoHeader)
      optProtected == getOptionsProperty(options.protected, NoHeader)
      unprotected == IF optUnprotected.def THEN optUnprotected.map ELSE <<>>
      protected0 == IF optProtected.def THEN optProtected.map ELSE <<>>
      protected1 == HeaderSet(HeaderSet(protected0, Alg, keyEncryptionAlgorithm),
                              Enc, contentEncryptionAlgorithm)
      protected == IF TruthyStr(publicKey.kid)
                   THEN HeaderSet(protected1, Kid, publicKey.kid) ELSE protected1
      optionsAfter == IF optProtected.def
                      THEN [options EXCEPT !.protected = SomeHeader(protected)]
                      ELSE options
      encodedProtected == IF Len(protected) > 0 THEN encodeHeader(protected, TRUE)
                          ELSE EmptyText
      aad == Base64UrlToBuffer(encodedProtected).val
      keyAlgorithm == jwaToWebCrypto(keyEncryptionAlgorithm, EmptyBuf, EmptyBuf)
      wrapped == WrapRecipients(recipients, keyAlgorithm.val, contentEncryptionKey, 1, <<>>)
      encodedAad == Base64UrlEncode(aad)
      contentAlgorithm == jwaToWebCrypto(contentEncryptionAlgorithm, iv, Utf8(encodedAad))
      cipherText == encryptByJwkContent(contentAlgorithm.val, contentEncryptionKey, payload)
      n == Len(cipherText.val)
      jweToken == [NewToken EXCEPT
                     !.iv = iv, !.unprotected = unprotected, !.protected = protected,
                     !.aad = aad, !.recipients = wrapped.val,
                     !.tag = Bytes(SubSeq(cipherText.val, n - TagLength + 1, n)),
                     !.ciphertext = Bytes(SubSeq(cipherText.val, 1, n - TagLength))]
  IN IF ~randomGenerator.ok THEN [out |-> randomGenerator, options |-> options]
     ELSE IF Len(recipients) = 0
     THEN [out |-> Throw("TypeError", <<"Cannot read property 'alg' of undefined">>),
           options |-> options]
     ELSE IF ~TruthyStr(publicKey.alg) /\ publicKey.kty = "EC"
     THEN [out |-> Throw("Error", <<"EC encryption not implemented">>), options |-> options]
     ELSE IF ~keyAlgorithm.ok THEN [out |-> keyAlgorithm, options |-> optionsAfter]
     ELSE IF ~wrapped.ok THEN [out |-> wrapped, options |-> optionsAfter]
     ELSE IF ~cipherText.ok THEN [out |-> cipherText, options |-> optionsAfter]
     ELSE [out |-> Ok(jweToken), options |-> optionsAfter]

(***************************************************************************)
(* Serialization                                                           *)
(***************************************************************************)
\* a parsed JSON object: absent members are Undef
NoJson ==
  [recipients |-> [def |-> FALSE, list |-> <<>>], encrypted_key |-> Undef,
   header |-> Undef, aad |-> Undef, iv |-> Undef, ciphertext |-> Undef,
   tag |-> Undef, protected |-> Undef, unprotected |-> Undef]

NoWire == [shape |-> "none", obj |-> NoJson, parts |-> <<>>]

JsonWire(obj) == [shape |-> "json", obj |-> obj, parts |-> <<>>]

CompactWire(parts) == [shape |-> "compact", obj |-> NoJson, parts |-> parts]

serializeRecipient(r) ==
  [encrypted_key |-> Base64UrlEncode(r.encrypted_key),
   header |-> IF headerHasElements(r.header) THEN encodeHeader(r.header.map, FALSE)
              ELSE Undef]

serializeJweGeneralJson(token) ==
  Ok(JsonWire([NoJson EXCEPT
    !.recipients = [def |-> TRUE,
                    list |-> [inx \in 1..Len(token.recipients) |->
                                serializeRecipient(token.recipients[inx])]],
    !.aad = Base64UrlEncode(token.aad),
    !.iv = Base64UrlEncode(token.iv),
    !.ciphertext = Base64UrlEncode(token.ciphertext),
    !.tag = Base64UrlEncode(token.tag),
    !.protected = IF Len(token.protected) > 0
                  THEN encodeHeader(token.protected, TRUE) ELSE Undef,
    !.unprotected = IF Len(token.unprotected) > 0
                    THEN encodeHeader(token.unprotected, FALSE) ELSE Undef]))

serializeJweFlatJson(token) ==
  IF Len(token.recipients) = 0
  THEN Throw("TypeError", <<"Cannot read property 'encrypted_key' of undefined">>)
  ELSE Ok(JsonWire([NoJson EXCEPT
    !.encrypted_key = Base64UrlEncode(token.recipients[1].encrypted_key),
    !.aad = Base64UrlEncode(token.aad),
    !.iv = Base64UrlEncode(token.iv),
    !.ciphertext = Base64UrlEncode(token.ciphertext),
    !.tag = Base64UrlEncode(token.tag),
    !.protected = IF Len(token.protected) > 0
                  THEN encodeHeader(token.protected, TRUE) ELSE Undef,
    !.unprotected = IF Len(token.unprotected) > 0
                    THEN encodeHeader(token.unprotected, TRUE) ELSE Undef,
    !.header = IF headerHasElements(token.recipients[1].header)
               THEN encodeHeader(token.recipients[1].header.map, FALSE) ELSE Undef]))

serializeJweCompact(token) ==
  LET encodedProtected == IF Len(token.protected) > 0
                          THEN encodeHeader(token.protected, TRUE) ELSE EmptyText
  IN IF Len(token.recipients) = 0
     THEN Throw("TypeError", <<"Cannot read property 'encrypted_key' of undefined">>)
     ELSE Ok(CompactWire(<<encodedProtected,
                           Base64UrlEncode(token.recipients[1].encrypted_key),
                           Base64UrlEncode(token.iv),
                           Base64UrlEncode(token.ciphertext),
                           Base64UrlEncode(token.tag)>>))

\* JweToken.serialize(format); format = Undefined is the call without argument
serialize(this, formatArg) ==
  LET format == IF formatArg = Undefined THEN this.format ELSE formatArg IN
  CASE format = JweGeneralJson -> serializeJweGeneralJson(this)
    [] format = JweCompactJson -> serializeJweCompact(this)
    [] format = JweFlatJson -> serializeJweFlatJson(this)
    [] OTHER -> Throw("CryptoProtocolError",
                      <<"The format '", this.format, "' is not supported">>)

(***************************************************************************)
(* Deserialization                                                         *)
(***************************************************************************)
\* a Buffer is an object: truthy whatever its length
TruthyBuffer(b) == TRUE

\* a TSMap is an object: truthy whatever its size
TruthyMap(h) == TRUE

setProtected(protectedHeader) == JsonParse(Base64UrlDecode(protectedHeader))

setUnprotected(unprotectedHeader) == JsonParse(unprotectedHeader)

isValidToken(this) ==
  IF ~TruthyBuffer(this.ciphertext) THEN [result |-> FALSE, reason |-> <<"missing ", "ciphertext">>]
  ELSE IF ~TruthyBuffer(this.iv) THEN [result |-> FALSE, reason |-> <<"missing ", "iv">>]
  ELSE IF Len(this.recipients) = 0
  THEN [result |-> FALSE, reason |-> <<"recipients", " array is empty">>]
  ELSE IF \E inx \in 1..Len(this.recipients) :
            ~TruthyBuffer(this.recipients[inx].encrypted_key)
  THEN [result |-> FALSE, reason |-> <<"recipient is missing ", "encrypted_key">>]
  ELSE IF \E inx \in 1..Len(this.recipients) :
            ~TruthyMap(this.protected) /\ ~this.recipients[inx].header.def
  THEN [result |-> FALSE, reason |-> <<"recipient is missing ", "header", " and protected is also missing">>]
  ELSE [result |-> TRUE, reason |-> <<>>]

\* the recipient loop of setGeneralParts
RECURSIVE parseRecipients(_, _, _)
parseRecipients(list, inx, acc) ==
  IF inx > Len(list) THEN Ok(acc)
  ELSE LET key == Base64UrlToBuffer(list[inx].encrypted_key)
           header == setUnprotected(list[inx].header)
       IN IF ~key.ok THEN key
          ELSE IF TruthyText(list[inx].header) /\ ~header.ok THEN header
          ELSE parseRecipients(list, inx + 1,
                 Append(acc, [encrypted_key |-> key.val,
                              header |-> IF TruthyText(list[inx].header)
                                         THEN SomeHeader(header.val) ELSE NoHeader]))

E30 == Base64UrlEncode(Utf8(JsonStringify(<<>>)))

\* outcome: threw |-> the exception, or the status and the token as the
\* attempt leaves it
Status(result, reason, token) ==
  [ok |-> TRUE, val |-> [result |-> result, reason |-> reason, token |-> token]]

setGeneralParts(this, content) ==
  LET ciphertext == Base64UrlToBuffer(content.ciphertext)
      aad == Base64UrlToBuffer(content.aad)
      iv == Base64UrlToBuffer(content.iv)
      protected == setProtected(content.protected)
      hasProtected == TruthyText(content.protected)
      unprotected == setUnprotected(content.unprotected)
      hasUnprotected == TruthyText(content.unprotected) /\ content.unprotected # E30
      tag == Base64UrlToBuffer(content.tag)
      recipients == parseRecipients(content.recipients.list, 1, <<>>)
      token == [this EXCEPT
                  !.ciphertext = ciphertext.val, !.aad = aad.val, !.iv = iv.val,
                  !.protected = IF hasProtected THEN protected.val ELSE @,
                  !.unprotected = IF hasUnprotected THEN unprotected.val ELSE @,
                  !.tag = tag.val, !.recipients = recipients.val]
      valid == isValidToken(token)
  IN IF ~content.recipients.def
     THEN Status(FALSE, <<"missing ", "recipients">>, this)
     ELSE IF ~ciphertext.ok THEN ciphertext
     ELSE IF ~aad.ok THEN aad
     ELSE IF ~iv.ok THEN iv
     ELSE IF hasProtected /\ ~protected.ok THEN protected
     ELSE IF hasUnprotected /\ ~unprotected.ok THEN unprotected
     ELSE IF ~tag.ok THEN tag
     ELSE IF ~recipients.ok THEN recipients
     ELSE Status(valid.result, valid.reason, token)

setFlatParts(this, content) ==
  LET protected == setProtected(content.protected)
      hasProtected == textHasElements(content.protected)
      unprotected == setUnprotected(content.unprotected)
      hasUnprotected == textHasElements(content.unprotected)
      header == setUnprotected(content.header)
      hasHeader == textHasElements(content.header)
      recipient == [encrypted_key |-> Base64UrlToBuffer(content.encrypted_key).val,
                    header |-> IF hasHeader THEN SomeHeader(header.val) ELSE NoHeader]
      token == [this EXCEPT
                  !.ciphertext = Base64UrlToBuffer(content.ciphertext).val,
                  !.iv = Base64UrlToBuffer(content.iv).val,
                  !.aad = IF TruthyText(content.aad)
                          THEN Base64UrlToBuffer(content.aad).val ELSE @,
                  !.protected = IF hasProtected THEN protected.val ELSE @,
                  !.unprotected = IF hasUnprotected THEN unprotected.val ELSE @,
                  !.recipients = <<recipient>>]
      valid == isValidToken(token)
  IN IF ~TruthyText(content.ciphertext)
     THEN Status(FALSE, <<"missing ", "ciphertext">>, this)
     ELSE IF ~TruthyText(content.encrypted_key)
     THEN Status(FALSE, <<"missing ", "encrypted_key">>, this)
     ELSE IF ~TruthyText(content.iv)
     THEN Status(FALSE, <<"missing ", "iv">>, this)
     ELSE IF hasProtected /\ ~protected.ok THEN protected
     ELSE IF hasUnprotected /\ ~unprotected.ok THEN unprotected
     ELSE IF hasHeader /\ ~header.ok THEN header
     ELSE Status(valid.result, valid.reason, token)

deserializeCompact(parts) ==
  LET protected == setProtected(parts[1])
      recipient == [NewRecipient EXCEPT !.encrypted_key = Base64UrlToBuffer(parts[2]).val]
  IN IF ~protected.ok THEN protected
     ELSE Ok([NewToken EXCEPT
                !.protected = protected.val,
                !.recipients = <<recipient>>,
                !.ciphertext = Base64UrlToBuffer(parts[4]).val,
                !.iv = Base64UrlToBuffer(parts[3]).val,
                !.tag = Base64UrlToBuffer(parts[5]).val,
                !.aad = Base64UrlToBuffer(parts[1]).val])

\* JweToken.deserialize(token)
deserialize(text) ==
  LET general == setGeneralParts(NewToken, text.obj)
      flat == setFlatParts(general.val.token, text.obj)
  IN IF text.shape = "compact" /\ Len(text.parts) = 5 THEN deserializeCompact(text.parts)
     ELSE IF text.shape # "json"
     THEN Throw("CryptoProtocolError",
                <<"The presented object is not deserializable and is no compact format.">>)
     ELSE IF ~general.ok THEN general
     ELSE IF general.val.result THEN Ok(general.val.token)
     ELSE IF ~flat.ok THEN flat
     ELSE IF flat.val.result THEN Ok(flat.val.token)
     ELSE Throw("CryptoProtocolError",
                <<"The content does not represent a valid jwe token">>)

(***************************************************************************)
(* Decryption                                                              *)
(***************************************************************************)
decryptContentEncryptionKey(this, recipient, decryptionKeyReference) ==
  LET headerAlg == HeaderGet(recipient.header.map, Alg)
      keyDecryptionAlgorithm ==
        IF ~recipient.header.def THEN HeaderGet(this.protected, Alg)
        ELSE IF TruthyStr(headerAlg) THEN headerAlg
        ELSE HeaderGet(this.protected, Alg)
      algorithm == jwaToWebCrypto(keyDecryptionAlgorithm, EmptyBuf, EmptyBuf)
  IN IF ~algorithm.ok THEN algorithm
     ELSE decryptByKeyStore(algorithm.val, decryptionKeyReference, recipient.encrypted_key)

NoKey == [found |-> FALSE, key |-> EmptyBuf]

\* the two recipient loops of decrypt: kidOnly is the first loop, which
\* tries only the recipients whose header kid equals the local key's kid
RECURSIVE tryRecipients(_, _, _, _, _)
tryRecipients(this, jwk, decryptionKeyReference, kidOnly, inx) ==
  IF inx > Len(this.recipients) THEN Ok(NoKey)
  ELSE LET recipient == this.recipients[inx]
           headerKid == HeaderGet(recipient.header.map, Kid)
           selected == \/ ~kidOnly
                       \/ /\ recipient.header.def
                          /\ TruthyStr(headerKid)
                          /\ headerKid = jwk.kid
           contentEncryptionKey ==
             decryptContentEncryptionKey(this, recipient, decryptionKeyReference)
       IN IF ~selected
          THEN tryRecipients(this, jwk, decryptionKeyReference, kidOnly, inx + 1)
          ELSE IF ~contentEncryptionKey.ok THEN contentEncryptionKey
          ELSE IF TruthyBuffer(contentEncryptionKey.val)
          THEN Ok([found |-> TRUE, key |-> contentEncryptionKey.val])
          ELSE tryRecipients(this, jwk, decryptionKeyReference, kidOnly, inx + 1)

\* the concatenation with the tag put first
BufferConcatTagFirst(a, b) ==
  IF a.k = "bytes" /\ b.k = "bytes" THEN b.v \o a.v ELSE <<[b |-> -1]>>

BufferConcat(a, b) ==
  IF a.k = "bytes" /\ b.k = "bytes" THEN a.v \o b.v ELSE <<[b |-> -1]>>

ContentKeyUnrecoverable ==
  [type |-> "CryptoProtocolError",
   msg |-> <<"Cannot decrypt the content encryption key because of missing key">>]

\* JweToken.decrypt(decryptionKeyReference)
decrypt(this, decryptionKeyReference) ==
  LET jwk == keyStoreGet(decryptionKeyReference)
      byKid == IF TruthyStr(jwk.kid)
               THEN tryRecipients(this, jwk, decryptionKeyReference, TRUE, 1)
               ELSE Ok(NoKey)
      byTrial == IF byKid.val.found THEN byKid
                 ELSE tryRecipients(this, jwk, decryptionKeyReference, FALSE, 1)
      contentEncryptionAlgorithm == HeaderGet(this.protected, Enc)
      encodedAad == Base64UrlEncode(this.aad)
      algorithm == jwaToWebCrypto(contentEncryptionAlgorithm, this.iv, Utf8(encodedAad))
  IN IF ~byKid.ok THEN byKid
     ELSE IF ~byTrial.ok THEN byTrial
     ELSE IF ~byTrial.val.found THEN [ok |-> FALSE, err |-> ContentKeyUnrecoverable]
     ELSE IF ~algorithm.ok THEN algorithm
     ELSE decryptByJwk(algorithm.val, byTrial.val.key,
                       BufferConcat(this.ciphertext, this.tag))

(***************************************************************************)
(* Inputs                                                                  *)
(***************************************************************************)
RECURSIVE SeqsUpTo(_, _)
SeqsUpTo(S, n) ==
  IF n = 0 THEN {<<>>}
  ELSE LET shorter == SeqsUpTo(S, n - 1)
       IN shorter \cup {Append(q, x) : q \in {p \in shorter : Len(p) = n - 1}, x \in S}

Distinct(q) == \A i, j \in 1..Len(q) : i # j => q[i] # q[j]

\* lists of recipient keys, no key twice
RecipientLists == {q \in SeqsUpTo(PublicKeys, MaxRecipients) : Distinct(q)}

Payloads == SeqsUpTo({Byte(104)}, MaxPayload)

GeneratedKeys == {Bytes(<<Byte(9)>>)}

GeneratedIvs == {Bytes(<<Byte(7)>>)}

FormatArgs == ProtectionFormat \cup {Undefined, "bluesky"}

OptionSets ==
  {[protected |-> NoHeader, unprotected |-> NoHeader,
    contentEncryptionAlgorithm |-> Undefined],
   [protected |-> SomeHeader(<<<<"typ", "JWT">>>>),
    unprotected |-> SomeHeader(<<<<"cty", "text">>>>),
    contentEncryptionAlgorithm |-> "A128GCM"]}

\* texts received from outside
SomeB64 == Base64UrlEncode(Bytes(<<Byte(1)>>))

BufferMembers == {Undef, EmptyText, SomeB64}

ProtectedMembers ==
  {Undef, encodeHeader(<<<<Alg, RsaOaep256>>, <<Enc, AesGcm256>>>>, TRUE),
   encodeHeader(<<<<Enc, AesGcm256>>>>, TRUE)}

HeaderMembers == {Undef, encodeHeader(<<<<Kid, "kid1">>>>, FALSE)}

RecipientMembers ==
  {[encrypted_key |-> k, header |-> h] : k \in BufferMembers, h \in HeaderMembers}

RecipientsMembers ==
  {[def |-> FALSE, list |-> <<>>], [def |-> TRUE, list |-> <<>>]}
  \cup {[def |-> TRUE, list |-> <<r>>] : r \in RecipientMembers}

InputObjects ==
  {[NoJson EXCEPT !.recipients = r, !.encrypted_key = k, !.header = h, !.aad = a,
                  !.iv = i, !.ciphertext = c, !.tag = t, !.protected = p] :
     r \in RecipientsMembers, k \in BufferMembers, h \in HeaderMembers,
     a \in {Undef, SomeB64}, i \in BufferMembers, c \in BufferMembers,
     t \in {Undef, SomeB64}, p \in ProtectedMembers}

InputParts ==
  {<<p, k, i, c, t>> : p \in (ProtectedMembers \ {Undef}) \cup {SomeB64},
                       k \in {EmptyText, SomeB64}, i \in {EmptyText, SomeB64},
                       c \in {EmptyText, SomeB64}, t \in {EmptyText, SomeB64}}
  \cup {<<SomeB64, SomeB64, SomeB64>>}

InputTexts == {JsonWire(o) : o \in InputObjects} \cup {CompactWire(p) : p \in InputParts}

(***************************************************************************)
(* Pairwise key derivation (PairwiseKey behind                             *)
(* SubtleCryptoExtension.generatePairwiseKey).  A keyed hash is the        *)
(* symbolic value naming its key and its message; the integer read from a  *)
(* hash value is a fixed function of it, scaled to ScalarSpace.            *)
(***************************************************************************)
MaxCounter == 6

\* the integers a hash value is read as are 0 .. ScalarSpace - 1, and the
\* group order of the curve is scaled with them
ScalarSpace == 16

CurveOrder == 13

OctKey(k) == [k |-> k]

Label(s) == [label |-> s]

Counter(n) == [counter |-> n]

\* a keyed hash that does not read its message
HmacOfKeyAlone(key, data) == [hmac |-> key, of |-> Label("")]

\* HMAC of data under key
Hmac(key, data) == [hmac |-> key, of |-> data]

TextNumber(s) ==
  CASE s = "ABDE" -> 1 [] s = "abcdefg" -> 2
    [] s = "persona" -> 3 [] s = "persona1" -> 4
    [] s = "did:peer" -> 5 [] s = "did:peer1" -> 6
    [] OTHER -> 0

\* the integer a byte string is read as
RECURSIVE Num(_)
Num(x) ==
  IF "k" \in DOMAIN x THEN TextNumber(x.k)
  ELSE IF "label" \in DOMAIN x THEN TextNumber(x.label)
  ELSE IF "counter" \in DOMAIN x THEN x.counter
  ELSE (7 * Num(x.hmac) + 3 * Num(x.of) + 5) % ScalarSpace

\* the derivation session: the key store's seeds and the persona master keys
\* the session has cached
NoMasterKey == [found |-> FALSE, key |-> OctKey("")]

\* a cache looked up by the persona alone
cachedMasterKeyOfPersona(masterKeys, seed, persona) ==
  IF \E m \in masterKeys : m.persona = persona
  THEN [found |-> TRUE,
        key |-> (CHOOSE m \in masterKeys : m.persona = persona).key]
  ELSE NoMasterKey

cachedMasterKey(masterKeys, seed, persona) ==
  IF \E m \in masterKeys : m.seed = seed /\ m.persona = persona
  THEN [found |-> TRUE,
        key |-> (CHOOSE m \in masterKeys : m.seed = seed /\ m.persona = persona).key]
  ELSE NoMasterKey

\* step 1: the persona master key, from the cache or computed and cached;
\* yields the key and the cache as the call leaves it
generatePersonaMasterKey(session, seedReference, persona) ==
  LET seed == session.seeds[seedReference]
      cached == cachedMasterKey(session.masterKeys, seed, persona)
      key == IF cached.found THEN cached.key ELSE Hmac(seed, Label(persona))
  IN [out |-> Ok(key), cached |-> cached.found,
      masterKeys |-> IF cached.found THEN session.masterKeys
                     ELSE session.masterKeys
                          \cup {[seed |-> seed, persona |-> persona, key |-> key]}]

\* the key family of a key generation algorithm
KeyTypeOf(algorithm) ==
  CASE algorithm.name \in {"ECDSA", "EdDSA"} -> "EC"
    [] algorithm.name = "RSASSA-PKCS1-v1_5" -> "RSA"
    [] OTHER -> "oct"

\* a test that rejects the zero candidate only
NonZeroScalar(candidate) == Num(candidate) # 0

ValidScalar(candidate) == Num(candidate) # 0 /\ Num(candidate) < CurveOrder

IsPrime(candidate) == Num(candidate) \in {2, 3, 5, 7, 11, 13}

NotFound == [found |-> FALSE, counter |-> 0, value |-> OctKey("")]

\* expand-and-test: the first counter value from counter on whose expansion
\* of the seed passes the test
RECURSIVE ExpandUntil(_, _, _)
ExpandUntil(peerSeed, counter, prime) ==
  LET candidate == Hmac(peerSeed, Counter(counter)) IN
  IF counter > MaxCounter THEN NotFound
  ELSE IF (IF prime THEN IsPrime(candidate) ELSE ValidScalar(candidate))
  THEN [found |-> TRUE, counter |-> counter, value |-> candidate]
  ELSE ExpandUntil(peerSeed, counter + 1, prime)

\* step 3: the EC private key
EcPairwiseKey(peerSeed, algorithm) ==
  LET d == ExpandUntil(peerSeed, 0, FALSE) IN
  [found |-> d.found, counter |-> d.counter,
   key |-> [kty |-> "EC", crv |-> algorithm.namedCurve, d |-> d.value]]

\* step 4: the RSA private key from two primes
RsaPairwiseKey(peerSeed, algorithm) ==
  LET p == ExpandUntil(peerSeed, 0, TRUE)
      q == ExpandUntil(peerSeed, p.counter + 1, TRUE)
  IN [found |-> p.found /\ q.found, counter |-> q.counter,
      key |-> [kty |-> "RSA", modulusLength |-> algorithm.modulusLength,
               e |-> "AQAB", p |-> p.value, q |-> q.value]]

\* a derivation that computes the master key first and looks at the
\* algorithm afterwards
generatePairwiseKeyThenValidate(session, algorithm, seedReference, persona, peer) ==
  LET keyType == KeyTypeOf(algorithm)
      master == generatePersonaMasterKey(session, seedReference, persona)
      peerSeed == Hmac(master.out.val, Label(peer))
      derived == IF keyType = "EC" THEN EcPairwiseKey(peerSeed, algorithm)
                 ELSE RsaPairwiseKey(peerSeed, algorithm)
  IN IF keyType \notin {"EC", "RSA"}
     THEN [out |-> Throw("CryptoError",
                         <<"Pairwise key for type '", keyType, "' is not supported.">>),
           masterKeys |-> master.masterKeys, found |-> TRUE,
           cached |-> FALSE, counter |-> 0]
     ELSE IF keyType = "EC" /\ algorithm.namedCurve # "secp256k1"
     THEN [out |-> Throw("CryptoError",
                         <<"Curve ", algorithm.namedCurve, " is not supported">>),
           masterKeys |-> master.masterKeys, found |-> TRUE,
           cached |-> FALSE, counter |-> 0]
     ELSE [out |-> Ok(derived.key), masterKeys |-> master.masterKeys,
           found |-> derived.found, cached |-> master.cached,
           counter |-> derived.counter]

\* generatePairwiseKey: the outcome and the cache as the call leaves it, with
\* whether the master key came from the cache, the last counter value used
\* and whether the expansions ended within MaxCounter
generatePairwiseKey(session, algorithm, seedReference, persona, peer) ==
  LET keyType == KeyTypeOf(algorithm)
      master == generatePersonaMasterKey(session, seedReference, persona)
      peerSeed == Hmac(master.out.val, Label(peer))
      derived == IF keyType = "EC" THEN EcPairwiseKey(peerSeed, algorithm)
                 ELSE RsaPairwiseKey(peerSeed, algorithm)
  IN IF keyType \notin {"EC", "RSA"}
     THEN [out |-> Throw("CryptoError",
                         <<"Pairwise key for type '", keyType, "' is not supported.">>),
           masterKeys |-> session.masterKeys, found |-> TRUE,
           cached |-> FALSE, counter |-> 0]
     ELSE IF keyType = "EC" /\ algorithm.namedCurve # "secp256k1"
     THEN [out |-> Throw("CryptoError",
                         <<"Curve ", algorithm.namedCurve, " is not supported">>),
           masterKeys |-> session.masterKeys, found |-> TRUE,
           cached |-> FALSE, counter |-> 0]
     ELSE [out |-> Ok(derived.key), masterKeys |-> master.masterKeys,
           found |-> derived.found, cached |-> master.cached,
           counter |-> derived.counter]

(***************************************************************************)
(* JwsToken: sign, serialize, deserialize, verify                          *)
(***************************************************************************)
JwsGeneralJson == "JwsGeneralJson"

JwsFlatJson == "JwsFlatJson"

JwsCompactJson == "JwsCompactJson"

NewJwsToken == [payload |-> EmptyBuf, signatures |-> <<>>, format |-> JwsGeneralJson]

\* the signing keys of the key store, with the algorithm each declares
S1 == [id |-> "key", kty |-> "EC", alg |-> "ES256K", kid |-> "#key1"]

S2 == [id |-> "neo", kty |-> "RSA", alg |-> "RS256", kid |-> "did#neo"]

SigningKeys == {S1, S2}

signingKeyGet(ref) == CHOOSE k \in SigningKeys : k.id = ref

\* the canonical signing input: base64url(protected header) "." base64url(payload)
SigningInput(protected, payload) ==
  <<encodeHeader(protected, TRUE), Base64UrlEncode(payload)>>

\* the signature bytes of a signing input under a key and algorithm
Signature(key, alg, input) == [k |-> "sig", key |-> key.id, alg |-> alg, input |-> input]

\* sign: one more signature entry on the token, over the payload given
jwsSign(this, keyReference, payload, format, options) ==
  LET key == signingKeyGet(keyReference)
      given == IF options.protected.def THEN options.protected.map ELSE <<>>
      withAlg == HeaderSet(given, Alg, key.alg)
      protected == IF HeaderGet(withAlg, Kid) = Undefined
                   THEN HeaderSet(withAlg, Kid, key.kid) ELSE withAlg
      entry == [protected |-> protected, header |-> options.header,
                signature |-> Signature(key, key.alg, SigningInput(protected, payload))]
  IN Ok([payload |-> payload, signatures |-> Append(this.signatures, entry),
         format |-> format])

\* a parsed JSON object of a JWS: absent members are Undef
NoJwsJson ==
  [payload |-> Undef, signatures |-> [def |-> FALSE, list |-> <<>>],
   protected |-> Undef, header |-> Undef, signature |-> Undef]

serializeSignature(s) ==
  [protected |-> IF Len(s.protected) > 0 THEN encodeHeader(s.protected, TRUE) ELSE Undef,
   header |-> IF headerHasElements(s.header) THEN encodeHeader(s.header.map, FALSE)
              ELSE Undef,
   signature |-> Base64UrlEncode(s.signature)]

serializeJwsGeneralJson(token) ==
  Ok(JsonWire([NoJwsJson EXCEPT
    !.payload = Base64UrlEncode(token.payload),
    !.signatures = [def |-> TRUE,
                    list |-> [inx \in 1..Len(token.signatures) |->
                                serializeSignature(token.signatures[inx])]]]))

TooManySignatures(format) ==
  Throw("CryptoProtocolError",
        <<"The format '", format, "' supports one signature only">>)

\* the single-signature fields inlined at the top level, without the header
serializeJwsFlatJsonBare(token) ==
  LET s == serializeSignature(token.signatures[1]) IN
  IF Len(token.signatures) # 1 THEN TooManySignatures(JwsFlatJson)
  ELSE Ok(JsonWire([NoJwsJson EXCEPT
         !.payload = Base64UrlEncode(token.payload),
         !.protected = s.protected, !.signature = s.signature]))

serializeJwsFlatJson(token) ==
  LET s == serializeSignature(token.signatures[1]) IN
  IF Len(token.signatures) # 1 THEN TooManySignatures(JwsFlatJson)
  ELSE Ok(JsonWire([NoJwsJson EXCEPT
         !.payload = Base64UrlEncode(token.payload),
         !.protected = s.protected, !.header = s.header,
         !.signature = s.signature]))

serializeJwsCompact(token) ==
  LET s == token.signatures[1] IN
  IF Len(token.signatures) # 1 THEN TooManySignatures(JwsCompactJson)
  ELSE Ok(CompactWire(<<IF Len(s.protected) > 0 THEN encodeHeader(s.protected, TRUE)
                        ELSE EmptyText,
                        Base64UrlEncode(token.payload),
                        Base64UrlEncode(s.signature)>>))

UnsupportedFormat(format) ==
  Throw("CryptoProtocolError", <<"Format '", format, "' is not supported">>)

jwsSerialize(token, format) ==
  CASE format = JwsGeneralJson -> serializeJwsGeneralJson(token)
    [] format = JwsFlatJson -> serializeJwsFlatJson(token)
    [] format = JwsCompactJson -> serializeJwsCompact(token)
    [] OTHER -> UnsupportedFormat(format)

MissingField(name) ==
  Throw("CryptoProtocolError",
        <<"The content does not represent a valid jws token: missing ", name>>)

\* one signature entry of the wire: its headers parsed, its bytes decoded
parseSignature(s) ==
  LET protected == setProtected(s.protected)
      header == setUnprotected(s.header)
      signature == Base64UrlToBuffer(s.signature)
  IN IF s.signature = Undef THEN MissingField("signature")
     ELSE IF TruthyText(s.protected) /\ ~protected.ok THEN protected
     ELSE IF TruthyText(s.header) /\ ~header.ok THEN header
     ELSE Ok([protected |-> IF TruthyText(s.protected) THEN protected.val ELSE <<>>,
              header |-> IF TruthyText(s.header) THEN SomeHeader(header.val)
                         ELSE NoHeader,
              signature |-> signature.val])

RECURSIVE parseSignatures(_, _, _)
parseSignatures(list, inx, acc) ==
  LET s == parseSignature(list[inx]) IN
  IF inx > Len(list) THEN Ok(acc)
  ELSE IF ~s.ok THEN s
  ELSE parseSignatures(list, inx + 1, Append(acc, s.val))

deserializeJwsGeneralJson(content) ==
  LET signatures == parseSignatures(content.signatures.list, 1, <<>>) IN
  IF content.payload = Undef THEN MissingField("payload")
  ELSE IF Len(content.signatures.list) = 0 THEN MissingField("signatures")
  ELSE IF ~signatures.ok THEN signatures
  ELSE Ok([payload |-> Base64UrlToBuffer(content.payload).val,
           signatures |-> signatures.val, format |-> JwsGeneralJson])

deserializeJwsFlatJson(content) ==
  LET s == parseSignature([protected |-> content.protected, header |-> content.header,
                           signature |-> content.signature])
  IN IF content.payload = Undef THEN MissingField("payload")
     ELSE IF ~s.ok THEN s
     ELSE Ok([payload |-> Base64UrlToBuffer(content.payload).val,
              signatures |-> <<s.val>>, format |-> JwsFlatJson])

deserializeJwsCompact(parts) ==
  LET s == parseSignature([protected |-> parts[1], header |-> Undef,
                           signature |-> parts[3]])
  IN IF ~s.ok THEN s
     ELSE Ok([payload |-> Base64UrlToBuffer(parts[2]).val,
              signatures |-> <<s.val>>, format |-> JwsCompactJson])

\* deserialize: Compact for three parts, otherwise the General shape and
\* after it the Flat shape
jwsDeserialize(text, format) ==
  IF format \notin {JwsGeneralJson, JwsFlatJson, JwsCompactJson}
  THEN UnsupportedFormat(format)
  ELSE IF text.shape = "compact" /\ Len(text.parts) = 3
  THEN deserializeJwsCompact(text.parts)
  ELSE IF text.shape # "json"
  THEN Throw("CryptoProtocolError",
             <<"The presented object is not deserializable and is no compact format.">>)
  ELSE IF text.obj.signatures.def THEN deserializeJwsGeneralJson(text.obj)
  ELSE deserializeJwsFlatJson(text.obj)

\* the algorithm of a signature entry: the one of its own header, otherwise
\* the one of the protected header
SignatureAlgorithm(s) ==
  IF s.header.def /\ TruthyStr(HeaderGet(s.header.map, Alg))
  THEN HeaderGet(s.header.map, Alg)
  ELSE HeaderGet(s.protected, Alg)

MissingAlgorithm ==
  Throw("CryptoProtocolError",
        <<"Unable to validate signature as no signature algorithm has been specified in the header.">>)

\* the signature of the entry is the one of the signing input under the key
verifyByJwk(alg, key, s, payload) ==
  s.signature = Signature(key, alg, SigningInput(s.protected, payload))

\* a verification that answers at the first signature no key verifies
RECURSIVE verifySignaturesUntilMismatch(_, _, _, _)
verifySignaturesUntilMismatch(this, validationKeys, inx, acc) ==
  LET s == this.signatures[inx]
      alg == SignatureAlgorithm(s)
  IN IF inx > Len(this.signatures) THEN Ok(acc)
     ELSE IF ~acc THEN Ok(FALSE)
     ELSE IF ~TruthyStr(alg) THEN MissingAlgorithm
     ELSE verifySignaturesUntilMismatch(
            this, validationKeys, inx + 1,
            \E key \in validationKeys : verifyByJwk(alg, key, s, this.payload))

\* every signature entry in turn: its algorithm resolved, its signature
\* tried against each candidate key
RECURSIVE verifySignatures(_, _, _, _)
verifySignatures(this, validationKeys, inx, acc) ==
  LET s == this.signatures[inx]
      alg == SignatureAlgorithm(s)
  IN IF inx > Len(this.signatures) THEN Ok(acc)
     ELSE IF ~TruthyStr(alg) THEN MissingAlgorithm
     ELSE verifySignatures(
            this, validationKeys, inx + 1,
            acc /\ \E key \in validationKeys : verifyByJwk(alg, key, s, this.payload))

jwsVerify(this, validationKeys) == verifySignatures(this, validationKeys, 1, TRUE)

(***************************************************************************)
(* Jose: the protection object that holds a token                          *)
(***************************************************************************)
Reject(reason) == Throw("rejection", <<reason>>)

\* a Jose object as built: no token
NewJose ==
  [state |-> "Empty", token |-> NewJwsToken, wasSigned |-> FALSE,
   wasDeserialized |-> FALSE]

\* sign: a token signed on this object gets one more signature, otherwise a
\* new token is signed
joseSign(this, keyReference, payload, format, options) ==
  jwsSign(IF this.state = "Signed" THEN this.token ELSE NewJwsToken,
          keyReference, payload, format, options)

\* a serialize that asks for no token
joseSerializeAnything(this, format) == jwsSerialize(this.token, format)

joseSerialize(this, format) ==
  IF this.state # "Signed" THEN Reject("No token to serialize")
  ELSE jwsSerialize(this.token, format)

joseDeserialize(this, text, format) == jwsDeserialize(text, format)

joseVerify(this, validationKeys) ==
  IF this.state # "Deserialized" THEN Reject("Import a token by deserialize")
  ELSE jwsVerify(this.token, validationKeys)

(***************************************************************************)
(* KeyStoreKeyVault: keys and secrets of a key vault, with a local cache   *)
(***************************************************************************)
SECRETS == "secret"

KEYS == "key"

VaultUri == "https://vault/"

\* the members of a JSON web key that hold private material
PrivateMembers == {"d", "p", "q", "dp", "dq", "qi"}

\* the public key classes keep the public members of the key they are built on
PublicKeyOf(key) == [f \in DOMAIN key \ PrivateMembers |-> key[f]]

\* a key given as an object (a key given as a string has no members)
IsKeyObject(key) == "kty" \in DOMAIN key

\* key.kid = kid
WithKid(key, kid) ==
  [f \in DOMAIN key \cup {"kid"} |-> IF f = "kid" THEN kid ELSE key[f]]

\* new OctKey(k)
VaultOctKey(k) == [kty |-> "oct", k |-> k]

\* JSON.stringify and JSON.parse of a key
keyStringify(key) == [json |-> key]

keyParse(text) ==
  IF "json" \in DOMAIN text THEN Ok(text.json)
  ELSE Throw("SyntaxError", <<"Unexpected token in JSON">>)

\* base64url.toBuffer of a member
MemberToBuffer(value) == [buffer |-> value]

\* the members toKeyVaultKey converts: x, y and d if present of an EC key; e,
\* n and, if d is present, the private members of an RSA key
ConvertedMembers(key) ==
  IF key.kty = "EC" THEN {"x", "y"} \cup ({"d"} \cap DOMAIN key)
  ELSE IF key.kty = "RSA"
  THEN {"e", "n"} \cup (IF "d" \in DOMAIN key THEN PrivateMembers ELSE {})
  ELSE {}

toKeyVaultKey(jwk) ==
  [f \in DOMAIN jwk |->
     IF f \in ConvertedMembers(jwk) THEN MemberToBuffer(jwk[f]) ELSE jwk[f]]

\* keyReference.remoteKeyReference || keyReference.keyReference
KeyName(keyReference) ==
  IF TruthyStr(keyReference.remoteKeyReference) THEN keyReference.remoteKeyReference
  ELSE keyReference.keyReference

\* cache.save(keyReference, key): one more key in the container of the
\* reference
cacheSave(cache, keyReference, key) ==
  [cache EXCEPT ![keyReference] = Append(@, key)]

\* save: a secret is set in the vault as the serialized key; a key is
\* imported into the vault and saved in the cache
vaultSave(this, keyReference, key) ==
  LET keyName == KeyName(keyReference)
      kid == <<VaultUri, keyReference.type, "s/", keyName>>
  IN IF ~TruthyStr(keyReference.keyReference)
     THEN [this |-> this, out |-> Throw("Error", <<"Key reference needs to be specified">>)]
     ELSE IF keyReference.type = SECRETS
     THEN LET k == IF IsKeyObject(key) THEN WithKid(key, kid)
                   ELSE WithKid(VaultOctKey(Base64UrlEncode(key.string)), kid)
          IN [this |-> [this EXCEPT !.secrets[keyName] = Append(@, keyStringify(k))],
              out |-> Ok(Undefined)]
     ELSE IF ~IsKeyObject(key)
     THEN [this |-> this,
           out |-> Throw("TypeError", <<"Cannot create property 'kid' on string">>)]
     ELSE LET k == WithKid(key, kid)
              kvKey == toKeyVaultKey(k)
          IN [this |-> [this EXCEPT !.keys[keyName] = Append(@, kvKey),
                                    !.cache = cacheSave(@, keyReference, k)],
              out |-> Ok(Undefined)]

\* secretClient.getSecret: the secret with its value parsed and its key type
SecretVersion(text) ==
  LET value == keyParse(text) IN
  IF value.ok THEN [value |-> value.val, keyType |-> value.val.kty]
  ELSE [value |-> text, keyType |-> "Oct"]

\* keyClient.getKey: the vault gives the public members of a key
KeyVersion(kvKey) == [key |-> PublicKeyOf(kvKey), keyType |-> kvKey.kty]

NotInVault(keyName) == Throw("RestError", <<"NotFound", keyName>>)

\* the versions get reads: the latest one or all of them
VersionList(this, keyReference, options) ==
  LET keyName == KeyName(keyReference)
      stored == IF keyReference.type = SECRETS THEN this.secrets[keyName]
                ELSE this.keys[keyName]
      version(v) == IF keyReference.type = SECRETS THEN SecretVersion(v)
                    ELSE KeyVersion(v)
  IN IF options.latestVersion
     THEN IF stored = <<>> THEN NotInVault(keyName)
          ELSE Ok(<<version(stored[Len(stored)])>>)
     ELSE Ok([i \in 1..Len(stored) |-> version(stored[i])])

UpperCase(kty) == IF kty \in {"oct", "Oct"} THEN "OCT" ELSE kty

NoItem == [unsupported |-> TRUE]

\* the key container item of a version
ContainerItem(keyReference, options, version) ==
  LET kty == UpperCase(version.keyType) IN
  IF kty = "OCT" THEN VaultOctKey(version.value)
  ELSE IF keyReference.type = SECRETS
  THEN IF kty \in {"EC", "OKP", "RSA"}
       THEN IF options.publicKeyOnly THEN PublicKeyOf(version.value)
            ELSE version.value
       ELSE NoItem
  ELSE PublicKeyOf(version.key)

\* get: the versions from the last one to the first one, each made a key
\* container item and, for a secret, saved in the cache
vaultGet(this, keyReference, options) ==
  LET keyName == KeyName(keyReference)
      versions == VersionList(this, keyReference, options)
      n == Len(versions.val)
      item(i) == ContainerItem(keyReference, options, versions.val[n + 1 - i])
      bad == {i \in 1..n : item(i) = NoItem}
      done == IF bad = {} THEN n ELSE (CHOOSE i \in bad : \A j \in bad : i <= j) - 1
      container == [i \in 1..done |-> item(i)]
      cached == IF keyReference.type = SECRETS
                THEN [this EXCEPT !.cache[keyReference] = @ \o container]
                ELSE this
  IN IF ~versions.ok THEN [this |-> this, out |-> versions]
     ELSE IF bad # {}
     THEN [this |-> cached,
           out |-> Throw("Error", <<"Non supported key type ",
                                    UpperCase(versions.val[n + 1 - (done + 1)].keyType)>>)]
     ELSE IF n = 0
     THEN [this |-> this,
           out |-> Throw("Error", <<"The secret with reference '", keyName,
                                    "' has not usable secrets">>)]
     ELSE [this |-> cached, out |-> Ok(container)]

(***************************************************************************)
(* CryptoBuilder: the key store and the crypto factory of a crypto object  *)
(***************************************************************************)
DefaultKeyStoreOptions == [publicKeyOnly |-> FALSE, latestVersion |-> TRUE]

\* new KeyStoreInMemory(), KeyStoreFactory.create('KeyStoreKeyVault', ...):
\* a key store object with nothing saved through it
NewKeyStore(class) == [class |-> class, keys |-> {}]

\* new CryptoFactoryNode(keyStore, subtle): a factory on the key store given
CryptoFactoryNode(keyStore) == [class |-> "CryptoFactoryNode", keyStore |-> keyStore]

\* new CryptoFactoryKeyVault(keyStore, defaultCrypto): the factory and its
\* adapters are on the key store given
CryptoFactoryKeyVault(keyStore) ==
  [class |-> "CryptoFactoryKeyVault", keyStore |-> keyStore]

\* a key reference field that is undefined
NoKeyReference == [keyReference |-> Undefined, type |-> Undefined]

\* the default crypto state: the factory is built on the key store made first
\* (the key stores are numbered as they are created)
NewCryptoBuilder ==
  [_keyStore |-> 1, _cryptoFactory |-> CryptoFactoryNode(1),
   _recoveryKeyOptions |-> DefaultKeyStoreOptions,
   _updateKeyOptions |-> DefaultKeyStoreOptions,
   _signingKeyOptions |-> DefaultKeyStoreOptions,
   _signingAlgorithm |-> "ES256K", _recoveryAlgorithm |-> "ES256K",
   _updateAlgorithm |-> "ES256K", _did |-> Undefined,
   _recoveryKeyReference |-> NoKeyReference, _updateKeyReference |-> NoKeyReference,
   _signingKeyReference |-> NoKeyReference]

useDid(this, did) == [this EXCEPT !._did = did]

useRecoveryKeyReference(this, recoveryKeyReference, options) ==
  [this EXCEPT !._recoveryKeyReference = recoveryKeyReference,
               !._recoveryKeyOptions = options]

useUpdateKeyReference(this, updateKeyReference, options) ==
  [this EXCEPT !._updateKeyReference = updateKeyReference,
               !._updateKeyOptions = options]

useSigningKeyReference(this, signingKeyReference, options) ==
  [this EXCEPT !._signingKeyReference = signingKeyReference,
               !._signingKeyOptions = options]

useSigningAlgorithm(this, signingAlgorithm) ==
  [this EXCEPT !._signingAlgorithm = signingAlgorithm]

useRecoveryAlgorithm(this, recoveryAlgorithm) ==
  [this EXCEPT !._recoveryAlgorithm = recoveryAlgorithm]

useUpdateAlgorithm(this, updateAlgorithm) ==
  [this EXCEPT !._updateAlgorithm = updateAlgorithm]

\* a useCryptoFactory that keeps the builder's key store
useCryptoFactoryAlone(this, value) == [this EXCEPT !._cryptoFactory = value]

useCryptoFactory(this, value) ==
  [this EXCEPT !._cryptoFactory = value, !._keyStore = value.keyStore]

\* useKeyVault, with the key store KeyStoreFactory.create made
useKeyVault(this, created) ==
  LET withKeyStore == [this EXCEPT !._keyStore = created] IN
  [withKeyStore EXCEPT !._cryptoFactory = CryptoFactoryKeyVault(withKeyStore._keyStore)]

(***************************************************************************)
(* State                                                                   *)
(*   self    the JweToken the caller holds: its format and its options     *)
(*   tok     the outcome of the last encrypt (initially a new token)       *)
(*   wire    the text at hand: received, or the outcome of serialize       *)
(*   parsed  the outcome of deserialize on wire                            *)
(*   plain   the outcome of the last decrypt                               *)
(*   calls   the encrypt calls in flight on self, each at its await         *)
(*   bridge  the last application of the naming bridge                     *)
(*   pairwise the pairwise derivation session and its key store            *)
(*   jose    the Jose object, the text at hand and the last operation       *)
(*   vault   the key vault store: its secrets, keys, cache, last call    *)
(*   builder the crypto builder and the key stores created                *)
(***************************************************************************)
\* what the operations on the caller's tokens leave alone
tokenFrame == <<calls, bridge, pairwise, jose, vault, builder>>

\* what the steps of the encrypt calls in flight leave alone
callFrame == <<tok, wire, parsed, plain, bridge, pairwise, jose, vault, builder>>

\* what the naming bridge leaves alone
bridgeFrame == <<self, tok, wire, parsed, plain, calls, pairwise, jose, vault, builder>>

\* what the pairwise derivations leave alone
pairwiseFrame == <<self, tok, wire, parsed, plain, calls, bridge, jose, vault, builder>>

\* what the operations on the Jose object leave alone
joseFrame == <<self, tok, wire, parsed, plain, calls, bridge, pairwise, vault, builder>>

\* what the key vault store leaves alone
vaultFrame == <<self, tok, wire, parsed, plain, calls, bridge, pairwise, jose, builder>>

\* what the crypto builder leaves alone
builderFrame == <<self, tok, wire, parsed, plain, calls, bridge, pairwise, jose, vault>>

Calls == {1, 2}

\* a call not yet made
NoCall ==
  [pc |-> "idle", recipients |-> <<>>, payload |-> <<>>, format |-> Undefined,
   options |-> [protected |-> NoHeader, unprotected |-> NoHeader,
                contentEncryptionAlgorithm |-> Undefined],
   contentEncryptionAlgorithm |-> Undefined, keyEncryptionAlgorithm |-> Undefined,
   contentEncryptionKey |-> EmptyBuf, jweToken |-> NewToken, shared |-> FALSE,
   inx |-> 0, result |-> NewToken, e |-> NoError]

NoCalls == calls = [c \in Calls |-> NoCall]

\* the naming bridge: the compact id or the descriptor at hand, the last
\* function applied and its outcome
NoOutcome == [ok |-> FALSE, err |-> NoError]

NoApplication ==
  [op |-> "none", given |-> "none", jwa |-> Undefined, algorithm |-> NoDescriptor,
   scope |-> Undefined, keyReference |-> Undefined, out |-> NoOutcome]

NoBridge == bridge = NoApplication

\* the derivation session: the seeds of the key store, the persona master
\* keys the session has cached, and the last call made, with whether it
\* repeats the call before it or differs from it in one label only, and the
\* outcome of that call
NoDerivation ==
  [op |-> "none", algorithm |-> NoDescriptor, seed |-> OctKey(""), persona |-> "",
   peer |-> "", cached |-> FALSE, counter |-> 0, out |-> NoOutcome,
   again |-> FALSE, varied |-> "none", before |-> NoOutcome]

SeedReferences == {"masterSeed"}

NoSession ==
  [seeds |-> [r \in SeedReferences |-> OctKey("ABDE")], masterKeys |-> {},
   last |-> NoDerivation]

NoPairwise == pairwise = NoSession

\* the Jose object with the text at hand (the outcome of the last serialize
\* of the token signed last, with the token as it was serialized) and the
\* last operation on the object with its outcome
NoText == [st |-> "none", fmt |-> Undefined, text |-> NoWire, of |-> NewJwsToken]

NoOperation == [op |-> "none", format |-> Undefined, keys |-> {}, out |-> NoOutcome]

NoProtection == [object |-> NewJose, wire |-> NoText, last |-> NoOperation]

NoJose == jose = NoProtection

\* the key vault store as constructed, on an empty vault and an empty cache
References ==
  {[keyReference |-> "neo", type |-> KEYS, remoteKeyReference |-> "remote-neo"],
   [keyReference |-> "neo", type |-> SECRETS, remoteKeyReference |-> Undefined],
   [keyReference |-> "", type |-> SECRETS, remoteKeyReference |-> Undefined]}

KeyNames == {"", "neo", "remote-neo"}

NoVaultCall == [op |-> "none", keyReference |-> Undefined, out |-> NoOutcome]

NewKeyStoreKeyVault ==
  [secrets |-> [n \in KeyNames |-> <<>>], keys |-> [n \in KeyNames |-> <<>>],
   cache |-> [r \in References |-> <<>>], last |-> NoVaultCall]

NoVault == vault = NewKeyStoreKeyVault

\* the builder as constructed, with the one key store its constructor made
NewBuilder ==
  [this |-> NewCryptoBuilder, stores |-> <<NewKeyStore("KeyStoreInMemory")>>]

NoBuilder == builder = NewBuilder

NoInput == [recipients |-> <<>>, payload |-> <<>>, format |-> Undefined]

Init ==
  /\ self \in {[format |-> JweGeneralJson, options |-> o] : o \in OptionSets}
  /\ tok = [st |-> "new", v |-> NewToken, e |-> NoError, in |-> NoInput]
  /\ wire = [st |-> "none", src |-> "none", fmt |-> Undefined, text |-> NoWire, e |-> NoError]
  /\ parsed = [st |-> "none", v |-> NewToken, e |-> NoError]
  /\ plain = [st |-> "none", on |-> "none", ref |-> "none", v |-> <<>>, e |-> NoError]
  /\ NoCalls
  /\ NoBridge
  /\ NoPairwise
  /\ NoJose
  /\ NoVault
  /\ NoBuilder

\* encrypt on the caller's token.  The outcome depends on self and the
\* arguments only and the call starts a new round (the results of the earlier
\* round are dropped), so it is taken from the states that hold no later
\* result; every state it leads to from any other state is reached this way.
Encrypt(recipients, payload, format, genKey, genIv) ==
  LET r == encrypt(self, recipients, payload, genKey, genIv) IN
  /\ wire.st = "none" /\ parsed.st = "none" /\ plain.st = "none"
  /\ self' = [format |-> format, options |-> r.options]
  /\ tok' = [st |-> IF r.out.ok THEN "ok" ELSE "err",
             v |-> IF r.out.ok THEN r.out.val ELSE NewToken,
             e |-> IF r.out.ok THEN NoError ELSE r.out.err,
             in |-> [recipients |-> recipients, payload |-> payload, format |-> format]]
  /\ wire' = [st |-> "none", src |-> "none", fmt |-> Undefined, text |-> NoWire, e |-> NoError]
  /\ parsed' = [st |-> "none", v |-> NewToken, e |-> NoError]
  /\ plain' = [st |-> "none", on |-> "none", ref |-> "none", v |-> <<>>, e |-> NoError]
  /\ UNCHANGED tokenFrame

Serialize(formatArg) ==
  LET r == serialize(tok.v, formatArg) IN
  /\ tok.st \in {"new", "ok"}
  /\ wire' = [st |-> IF r.ok THEN "ok" ELSE "err", src |-> "serialize", fmt |-> formatArg,
              text |-> IF r.ok THEN r.val ELSE NoWire,
              e |-> IF r.ok THEN NoError ELSE r.err]
  /\ parsed' = [st |-> "none", v |-> NewToken, e |-> NoError]
  /\ plain' = [st |-> "none", on |-> "none", ref |-> "none", v |-> <<>>, e |-> NoError]
  /\ UNCHANGED <<self, tok>>
  /\ UNCHANGED tokenFrame

Deserialize ==
  LET r == deserialize(wire.text) IN
  /\ wire.st = "ok"
  /\ parsed' = [st |-> IF r.ok THEN "ok" ELSE "err",
                v |-> IF r.ok THEN r.val ELSE NewToken,
                e |-> IF r.ok THEN NoError ELSE r.err]
  /\ plain' = [st |-> "none", on |-> "none", ref |-> "none", v |-> <<>>, e |-> NoError]
  /\ UNCHANGED <<self, tok, wire>>
  /\ UNCHANGED tokenFrame

Decrypt(on, ref) ==
  LET this == IF on = "tok" THEN tok ELSE parsed
      r == decrypt(this.v, ref)
  IN /\ this.st = "ok"
     /\ plain' = [st |-> IF r.ok THEN "ok" ELSE "err", on |-> on, ref |-> ref,
                  v |-> IF r.ok THEN r.val ELSE <<>>,
                  e |-> IF r.ok THEN NoError ELSE r.err]
     /\ UNCHANGED <<self, tok, wire, parsed>>
     /\ UNCHANGED tokenFrame

Next ==
  \/ \E recipients \in RecipientLists, payload \in Payloads, format \in ProtectionFormat,
        genKey \in GeneratedKeys, genIv \in GeneratedIvs :
       Encrypt(recipients, payload, format, genKey, genIv)
  \/ \E formatArg \in FormatArgs : Serialize(formatArg)
  \/ Deserialize
  \/ \E on \in {"tok", "parsed"}, ref \in KeyReferences : Decrypt(on, ref)

Spec == Init /\ [][Next]_vars

(***************************************************************************)
(* The consuming side: a text received from outside is deserialized and    *)
(* the resulting token decrypted                                           *)
(***************************************************************************)
InitReceived ==
  /\ self = [format |-> JweGeneralJson,
             options |-> [protected |-> NoHeader, unprotected |-> NoHeader,
                          contentEncryptionAlgorithm |-> Undefined]]
  /\ tok = [st |-> "new", v |-> NewToken, e |-> NoError, in |-> NoInput]
  /\ wire \in {[st |-> "ok", src |-> "input", fmt |-> Undefined, text |-> w, e |-> NoError] :
                 w \in InputTexts}
  /\ parsed = [st |-> "none", v |-> NewToken, e |-> NoError]
  /\ plain = [st |-> "none", on |-> "none", ref |-> "none", v |-> <<>>, e |-> NoError]
  /\ NoCalls
  /\ NoBridge
  /\ NoPairwise
  /\ NoJose
  /\ NoVault
  /\ NoBuilder

NextReceived ==
  \/ Deserialize
  \/ \E ref \in KeyReferences : Decrypt("parsed", ref)

SpecReceived == InitReceived /\ [][NextReceived]_vars

(***************************************************************************)
(* encrypt as it runs: from one await to the next.  Several calls on the   *)
(* same token are in flight at once and resume in any order; between two   *)
(* awaits a call runs alone.                                               *)
(***************************************************************************)
\* the token of call c as its holder sees it: the protected header of a
\* token made from options that carry one is the options' own map
TokenOf(c) ==
  IF calls[c].shared
  THEN [calls[c].jweToken EXCEPT !.protected = self.options.protected.map]
  ELSE calls[c].jweToken

Rejected(call, error) == [call EXCEPT !.pc = "rejected", !.e = error]

\* lines 402-421: up to the await of the content key generation
Begin(c, recipients, payload, format) ==
  LET options == self.options
      contentEncryptionAlgorithm ==
        IF TruthyStr(options.contentEncryptionAlgorithm)
        THEN options.contentEncryptionAlgorithm ELSE AesGcm256
      randomGenerator == jwaToWebCrypto(contentEncryptionAlgorithm, EmptyBuf, EmptyBuf)
      call == [NoCall EXCEPT !.recipients = recipients, !.payload = payload,
                             !.format = format, !.options = options,
                             !.contentEncryptionAlgorithm = contentEncryptionAlgorithm]
  IN /\ calls[c].pc = "idle"
     /\ \A d \in Calls : d < c => calls[d].pc # "idle"
     /\ self' = [self EXCEPT !.format = format]
     /\ calls' = [calls EXCEPT ![c] =
                    IF randomGenerator.ok THEN [call EXCEPT !.pc = "generateKey"]
                    ELSE Rejected(call, randomGenerator.err)]
     /\ UNCHANGED callFrame

\* lines 421-429: the content key is there; up to the await of the iv
GenerateKey(c, genKey) ==
  /\ calls[c].pc = "generateKey"
  /\ calls' = [calls EXCEPT ![c].contentEncryptionKey = genKey, ![c].pc = "generateIv"]
  /\ UNCHANGED self
  /\ UNCHANGED callFrame

\* lines 429-480: the iv is there; the key encryption algorithm, the headers
\* and the aad are set; up to the await of the first key wrap
GenerateIv(c, genIv) ==
  LET call == calls[c]
      recipients == call.recipients
      publicKey == recipients[FirstOaep256(recipients, 1)]
      keyEncryptionAlgorithm ==
        IF TruthyStr(publicKey.alg) THEN publicKey.alg ELSE RsaOaep256
      optUnprotected == getOptionsProperty(self.options.unprotected, NoHeader)
      optProtected == getOptionsProperty(self.options.protected, NoHeader)
      unprotected == IF optUnprotected.def THEN optUnprotected.map ELSE <<>>
      protected0 == IF optProtected.def THEN optProtected.map ELSE <<>>
      protected1 == HeaderSet(HeaderSet(protected0, Alg, keyEncryptionAlgorithm),
                              Enc, call.contentEncryptionAlgorithm)
      protected == IF TruthyStr(publicKey.kid)
                   THEN HeaderSet(protected1, Kid, publicKey.kid) ELSE protected1
      encodedProtected == IF Len(protected) > 0 THEN encodeHeader(protected, TRUE)
                          ELSE EmptyText
      keyAlgorithm == jwaToWebCrypto(keyEncryptionAlgorithm, EmptyBuf, EmptyBuf)
      withIv == [call EXCEPT !.jweToken.iv = genIv]
      withHeaders == [withIv EXCEPT
                        !.keyEncryptionAlgorithm = keyEncryptionAlgorithm,
                        !.shared = optProtected.def,
                        !.jweToken.unprotected = unprotected,
                        !.jweToken.protected = protected,
                        !.jweToken.aad = Base64UrlToBuffer(encodedProtected).val]
  IN /\ call.pc = "generateIv"
     /\ IF Len(recipients) = 0
        THEN /\ calls' = [calls EXCEPT ![c] =
                  Rejected(withIv, [type |-> "TypeError",
                                    msg |-> <<"Cannot read property 'alg' of undefined">>])]
             /\ UNCHANGED self
        ELSE IF ~TruthyStr(publicKey.alg) /\ publicKey.kty = "EC"
        THEN /\ calls' = [calls EXCEPT ![c] =
                  Rejected(withIv, [type |-> "Error",
                                    msg |-> <<"EC encryption not implemented">>])]
             /\ UNCHANGED self
        ELSE /\ calls' = [calls EXCEPT ![c] =
                  IF keyAlgorithm.ok
                  THEN [withHeaders EXCEPT !.pc = "encryptByJwk", !.inx = 1]
                  ELSE Rejected(withHeaders, keyAlgorithm.err)]
             /\ self' = IF optProtected.def
                        THEN [self EXCEPT !.options.protected = SomeHeader(protected)]
                        ELSE self
     /\ UNCHANGED callFrame

\* lines 480-488 and on to the next await: the wrap for recipient inx is
\* there; the entry gets its key and header, then the next recipient's wrap
\* or, after the last one, the content encryption is awaited
EncryptByJwk(c) ==
  LET call == calls[c]
      publicKey == call.recipients[call.inx]
      algorithm == jwaToWebCrypto(call.keyEncryptionAlgorithm, EmptyBuf, EmptyBuf)
      wrapped == encryptByJwkWrap(algorithm.val, publicKey, call.contentEncryptionKey)
      entry == [header |-> SomeHeader(<<<<Kid, publicKey.kid>>>>),
                encrypted_key |-> wrapped.val]
      pushed == [call EXCEPT !.jweToken.recipients = Append(@, entry)]
  IN /\ call.pc = "encryptByJwk"
     /\ calls' = [calls EXCEPT ![c] =
                    IF ~wrapped.ok THEN Rejected(call, wrapped.err)
                    ELSE IF call.inx < Len(call.recipients)
                    THEN [pushed EXCEPT !.inx = call.inx + 1]
                    ELSE [pushed EXCEPT !.pc = "encryptContent"]]
     /\ UNCHANGED self
     /\ UNCHANGED callFrame

\* lines 498-506: the cipher output is there; it is split into ciphertext
\* and tag and the token is returned; result is the token as the caller
\* receives it
EncryptContent(c) ==
  LET call == calls[c]
      protected == IF call.shared THEN self.options.protected.map
                   ELSE call.jweToken.protected
      encodedAad == Base64UrlEncode(call.jweToken.aad)
      contentAlgorithm ==
        jwaToWebCrypto(call.contentEncryptionAlgorithm, call.jweToken.iv, Utf8(encodedAad))
      cipherText == encryptByJwkContent(contentAlgorithm.val, call.contentEncryptionKey,
                                        call.payload)
      n == Len(cipherText.val)
  IN /\ call.pc = "encryptContent"
     /\ calls' = [calls EXCEPT ![c] =
                    IF ~cipherText.ok THEN Rejected(call, cipherText.err)
                    ELSE [call EXCEPT
                            !.pc = "returned",
                            !.jweToken.tag = Bytes(SubSeq(cipherText.val, n - TagLength + 1, n)),
                            !.jweToken.ciphertext = Bytes(SubSeq(cipherText.val, 1, n - TagLength)),
                            !.result =
                              [call.jweToken EXCEPT
                                 !.protected = protected,
                                 !.tag = Bytes(SubSeq(cipherText.val, n - TagLength + 1, n)),
                                 !.ciphertext = Bytes(SubSeq(cipherText.val, 1, n - TagLength))]]]
     /\ UNCHANGED self
     /\ UNCHANGED callFrame

\* the arguments of the calls in flight
ConcurrentFormats == {JweGeneralJson, JweCompactJson}

ConcurrentPayloads == {p \in Payloads : Len(p) = MaxPayload}

NextConcurrent ==
  \/ \E c \in Calls, recipients \in RecipientLists, payload \in ConcurrentPayloads,
        format \in ConcurrentFormats : Begin(c, recipients, payload, format)
  \/ \E c \in Calls, genKey \in GeneratedKeys : GenerateKey(c, genKey)
  \/ \E c \in Calls, genIv \in GeneratedIvs : GenerateIv(c, genIv)
  \/ \E c \in Calls : EncryptByJwk(c)
  \/ \E c \in Calls : EncryptContent(c)

SpecConcurrent == Init /\ [][NextConcurrent]_vars

(***************************************************************************)
(* The naming bridge applied to compact ids and algorithm descriptors      *)
(***************************************************************************)
\* the compact ids of the wire
WireIds ==
  {"ES256K", "EdDSA", "RS256", "RS384", "RS512", "RSA-OAEP-256",
   "A128GCM", "A192GCM", "A256GCM", "HS256", "HS384", "HS512"}

\* the ids given to jwaToWebCrypto: the wire ids, the other ids it knows,
\* ids in lower case, and ids it does not know
JwaInputs ==
  WireIds \cup {"RSA-OAEP", "SHA-256", "SHA-384", "SHA-512"}
          \cup {"es256k", "rsa-oaep-256", "a128gcm", "hs384"}
          \cup {"ES256", "es256", "RSA1_5", "A128CBC", "none"}

AlgorithmNames ==
  {"RSASSA-PKCS1-v1_5", "ECDSA", "EdDSA", "RSA-OAEP", "RSA-OAEP-256", "AES-GCM", "HMAC",
   "SHA-256", "SHA-384", "SHA-512",
   "ecdsa", "rsa-oaep", "aes-gcm", "hmac", "sha-256",
   "ECDH", "ecdh", "AES-CBC", "PBKDF2", Undefined}

AlgorithmHashes ==
  {NoHash, HashStr("SHA-256"), HashStr("sha-512"),
   HashObj("SHA-256"), HashObj("SHA-384"), HashObj("SHA-512")}

AlgorithmLengths == {0, 128, 192, 256}

\* the descriptors given to webCryptoToJwa and getSubtleCryptoForAlgorithm
AlgorithmInputs ==
  {[NoDescriptor EXCEPT !.name = n, !.hash = h, !.length = l] :
     n \in AlgorithmNames, h \in AlgorithmHashes, l \in AlgorithmLengths}

CryptoFactoryScopes == {"All", "Private", "Public"}

FactoryKeyReferences == {[id |-> "", type |-> "secret"], [id |-> "k1", type |-> "key"]}

InitBridge ==
  /\ self = [format |-> JweGeneralJson,
             options |-> [protected |-> NoHeader, unprotected |-> NoHeader,
                          contentEncryptionAlgorithm |-> Undefined]]
  /\ tok = [st |-> "new", v |-> NewToken, e |-> NoError, in |-> NoInput]
  /\ wire = [st |-> "none", src |-> "none", fmt |-> Undefined, text |-> NoWire, e |-> NoError]
  /\ parsed = [st |-> "none", v |-> NewToken, e |-> NoError]
  /\ plain = [st |-> "none", on |-> "none", ref |-> "none", v |-> <<>>, e |-> NoError]
  /\ NoCalls
  /\ NoPairwise
  /\ NoJose
  /\ NoVault
  /\ NoBuilder
  /\ bridge \in {[NoApplication EXCEPT !.given = "jwa", !.jwa = j] : j \in JwaInputs}
           \cup {[NoApplication EXCEPT !.given = "algorithm", !.algorithm = a] :
                   a \in AlgorithmInputs}

\* jwaToWebCrypto(jwa) on the id given
JwaToWebCrypto ==
  LET r == jwaToWebCrypto(bridge.jwa, EmptyBuf, EmptyBuf) IN
  /\ bridge.op = "none" /\ bridge.given = "jwa"
  /\ bridge' = [bridge EXCEPT !.op = "jwaToWebCrypto", !.out = r,
                              !.algorithm = IF r.ok THEN r.val ELSE @]
  /\ UNCHANGED bridgeFrame

\* a descriptor is at hand: the one given, or the one jwaToWebCrypto returned
HasAlgorithm ==
  \/ bridge.op = "none" /\ bridge.given = "algorithm"
  \/ bridge.op = "jwaToWebCrypto" /\ bridge.out.ok

WebCryptoToJwa ==
  /\ HasAlgorithm
  /\ bridge' = [bridge EXCEPT !.op = "webCryptoToJwa",
                              !.out = webCryptoToJwa(bridge.algorithm)]
  /\ UNCHANGED bridgeFrame

GetSubtleCryptoForAlgorithm(scope, keyReference) ==
  /\ HasAlgorithm
  /\ bridge' = [bridge EXCEPT
                  !.op = "getSubtleCryptoForAlgorithm",
                  !.scope = scope, !.keyReference = keyReference,
                  !.out = getSubtleCryptoForAlgorithm(bridge.algorithm, scope, keyReference)]
  /\ UNCHANGED bridgeFrame

NextBridge ==
  \/ JwaToWebCrypto
  \/ WebCryptoToJwa
  \/ \E scope \in CryptoFactoryScopes, keyReference \in FactoryKeyReferences :
       GetSubtleCryptoForAlgorithm(scope, keyReference)

SpecBridge == InitBridge /\ [][NextBridge]_vars

(***************************************************************************)
(* The pairwise derivations of one key store: seeds saved under the seed   *)
(* reference, derivation sessions begun, master keys and pairwise keys     *)
(* derived.                                                                *)
(***************************************************************************)
Seeds == {OctKey("ABDE"), OctKey("abcdefg")}

Personas == {"persona", "persona1"}

Peers == {"did:peer", "did:peer1"}

KeyGenerationAlgorithms ==
  {[NoDescriptor EXCEPT !.name = "RSASSA-PKCS1-v1_5", !.modulusLength = 1024,
                        !.hash = HashObj("SHA-256")],
   [NoDescriptor EXCEPT !.name = "ECDSA", !.namedCurve = "secp256k1",
                        !.hash = HashObj("SHA-256")],
   [NoDescriptor EXCEPT !.name = "ECDSA", !.namedCurve = "P-256",
                        !.hash = HashObj("SHA-256")],
   [NoDescriptor EXCEPT !.name = "EdDSA", !.namedCurve = "ed25519",
                        !.hash = HashObj("SHA-256")],
   [NoDescriptor EXCEPT !.name = "HMAC", !.hash = HashStr("SHA-256")]}

InitPairwise ==
  /\ self = [format |-> JweGeneralJson,
             options |-> [protected |-> NoHeader, unprotected |-> NoHeader,
                          contentEncryptionAlgorithm |-> Undefined]]
  /\ tok = [st |-> "new", v |-> NewToken, e |-> NoError, in |-> NoInput]
  /\ wire = [st |-> "none", src |-> "none", fmt |-> Undefined, text |-> NoWire, e |-> NoError]
  /\ parsed = [st |-> "none", v |-> NewToken, e |-> NoError]
  /\ plain = [st |-> "none", on |-> "none", ref |-> "none", v |-> <<>>, e |-> NoError]
  /\ NoCalls
  /\ NoBridge
  /\ NoPairwise
  /\ NoJose
  /\ NoVault
  /\ NoBuilder

\* keyStore.save(new KeyReference(seedReference), seed)
SaveSeed(seedReference, seed) ==
  /\ pairwise' = [pairwise EXCEPT !.seeds[seedReference] = seed]
  /\ UNCHANGED pairwiseFrame

\* a new PairwiseKey: no master key cached
NewSession ==
  /\ pairwise' = [pairwise EXCEPT !.masterKeys = {}]
  /\ UNCHANGED pairwiseFrame

\* the call is the last call made again: the same operation with the same
\* arguments against the same stored seed
Repeats(derivation) ==
  /\ derivation.op = pairwise.last.op
  /\ derivation.algorithm = pairwise.last.algorithm
  /\ derivation.seed = pairwise.last.seed
  /\ derivation.persona = pairwise.last.persona
  /\ derivation.peer = pairwise.last.peer

\* the call is the last call made with another persona, or with another
\* peer: the same operation and algorithm against the same stored seed
Varies(derivation) ==
  IF /\ derivation.op = pairwise.last.op
     /\ derivation.algorithm = pairwise.last.algorithm
     /\ derivation.seed = pairwise.last.seed
  THEN CASE derivation.persona # pairwise.last.persona
            /\ derivation.peer = pairwise.last.peer -> "persona"
         [] derivation.persona = pairwise.last.persona
            /\ derivation.peer # pairwise.last.peer -> "peer"
         [] OTHER -> "none"
  ELSE "none"

\* the call now made becomes the last one
Derived(derivation, masterKeys) ==
  pairwise' = [pairwise EXCEPT
                 !.masterKeys = masterKeys,
                 !.last = [derivation EXCEPT
                             !.again = Repeats(derivation),
                             !.varied = Varies(derivation),
                             !.before = IF Repeats(derivation)
                                           \/ Varies(derivation) # "none"
                                        THEN pairwise.last.out ELSE NoOutcome]]

GeneratePersonaMasterKey(seedReference, persona) ==
  LET r == generatePersonaMasterKey(pairwise, seedReference, persona) IN
  /\ Derived([NoDerivation EXCEPT !.op = "generatePersonaMasterKey",
                                  !.seed = pairwise.seeds[seedReference],
                                  !.persona = persona, !.cached = r.cached,
                                  !.out = r.out],
             r.masterKeys)
  /\ UNCHANGED pairwiseFrame

GeneratePairwiseKey(algorithm, seedReference, persona, peer) ==
  LET r == generatePairwiseKey(pairwise, algorithm, seedReference, persona, peer) IN
  /\ r.found
  /\ Derived([NoDerivation EXCEPT !.op = "generatePairwiseKey",
                                  !.algorithm = algorithm,
                                  !.seed = pairwise.seeds[seedReference],
                                  !.persona = persona, !.peer = peer,
                                  !.cached = r.cached, !.counter = r.counter,
                                  !.out = r.out],
             r.masterKeys)
  /\ UNCHANGED pairwiseFrame

NextPairwise ==
  \/ \E seedReference \in SeedReferences, seed \in Seeds : SaveSeed(seedReference, seed)
  \/ NewSession
  \/ \E seedReference \in SeedReferences, persona \in Personas :
       GeneratePersonaMasterKey(seedReference, persona)
  \/ \E algorithm \in KeyGenerationAlgorithms, seedReference \in SeedReferences,
        persona \in Personas, peer \in Peers :
       GeneratePairwiseKey(algorithm, seedReference, persona, peer)

SpecPairwise == InitPairwise /\ [][NextPairwise]_vars

(***************************************************************************)
(* The Jose object: built, signed on, serialized, deserialized, verified;  *)
(* the algorithm of a signature entry of the token it holds set by the     *)
(* caller.                                                                 *)
(***************************************************************************)
JwsPayloads == {Bytes(<<Byte(116)>>)}

JwsFormats == {JwsGeneralJson, JwsFlatJson, JwsCompactJson, "bluesky"}

SigningOptions ==
  {[protected |-> NoHeader, header |-> NoHeader],
   [protected |-> SomeHeader(<<<<"typ", "JWT">>>>), header |-> SomeHeader(<<>>)],
   [protected |-> SomeHeader(<<<<"test", "elo">>, <<Kid, "random">>>>),
    header |-> SomeHeader(<<<<"test", "ES256K">>>>)],
   [protected |-> NoHeader, header |-> SomeHeader(<<<<Alg, "ES256K">>>>)]}

ValidationKeySets == {{S1}, {S2}, {S1, S2}}

InitJose ==
  /\ self = [format |-> JweGeneralJson,
             options |-> [protected |-> NoHeader, unprotected |-> NoHeader,
                          contentEncryptionAlgorithm |-> Undefined]]
  /\ tok = [st |-> "new", v |-> NewToken, e |-> NoError, in |-> NoInput]
  /\ wire = [st |-> "none", src |-> "none", fmt |-> Undefined, text |-> NoWire, e |-> NoError]
  /\ parsed = [st |-> "none", v |-> NewToken, e |-> NoError]
  /\ plain = [st |-> "none", on |-> "none", ref |-> "none", v |-> <<>>, e |-> NoError]
  /\ NoCalls
  /\ NoBridge
  /\ NoPairwise
  /\ NoJose
  /\ NoVault
  /\ NoBuilder

\* new JoseBuilder(crypto).build(): an object without a token
JoseBuild ==
  /\ jose' = [jose EXCEPT !.object = NewJose, !.last = [NoOperation EXCEPT !.op = "build"]]
  /\ UNCHANGED joseFrame

\* the keys that have signed the token the object holds
Signers ==
  {jose.object.token.signatures[inx].signature.key :
     inx \in 1..Len(jose.object.token.signatures)}

\* sign with a key that has not signed the token yet
JoseSign(keyReference, payload, format, options) ==
  LET r == joseSign(jose.object, keyReference, payload, format, options) IN
  /\ keyReference \notin Signers \/ jose.object.state # "Signed"
  /\ jose' = [jose EXCEPT
                !.object = [@ EXCEPT !.state = "Signed", !.token = r.val,
                                     !.wasSigned = TRUE],
                !.wire = NoText,
                !.last = [op |-> "sign", format |-> format, keys |-> {}, out |-> r]]
  /\ UNCHANGED joseFrame

JoseSerialize(format) ==
  LET r == joseSerialize(jose.object, format) IN
  /\ jose' = [jose EXCEPT
                !.wire = IF r.ok THEN [st |-> "ok", fmt |-> format, text |-> r.val,
                                       of |-> jose.object.token]
                         ELSE @,
                !.last = [op |-> "serialize", format |-> format, keys |-> {},
                          out |-> r]]
  /\ UNCHANGED joseFrame

\* deserialize of the text at hand
JoseDeserialize(format) ==
  LET r == joseDeserialize(jose.object, jose.wire.text, format) IN
  /\ jose.wire.st = "ok"
  /\ jose' = [jose EXCEPT
                !.object = IF r.ok
                           THEN [@ EXCEPT !.state = "Deserialized", !.token = r.val,
                                          !.wasDeserialized = TRUE]
                           ELSE @,
                !.last = [op |-> "deserialize", format |-> format, keys |-> {},
                          out |-> r]]
  /\ UNCHANGED joseFrame

JoseVerify(validationKeys) ==
  /\ jose' = [jose EXCEPT
                !.last = [op |-> "verify", format |-> Undefined, keys |-> validationKeys,
                          out |-> joseVerify(jose.object, validationKeys)]]
  /\ UNCHANGED joseFrame

\* signatures[inx].protected.set('alg', value) on the token the object holds
SetProtectedAlg(inx, value) ==
  /\ inx \in 1..Len(jose.object.token.signatures)
  /\ jose' = [jose EXCEPT
                !.object.token.signatures[inx].protected = HeaderSet(@, Alg, value),
                !.last = [NoOperation EXCEPT !.op = "set"]]
  /\ UNCHANGED joseFrame

NextJose ==
  \/ JoseBuild
  \/ \E keyReference \in {k.id : k \in SigningKeys}, payload \in JwsPayloads,
        options \in SigningOptions :
       JoseSign(keyReference, payload, JwsGeneralJson, options)
  \/ \E format \in JwsFormats : JoseSerialize(format)
  \/ \E format \in JwsFormats : JoseDeserialize(format)
  \/ \E validationKeys \in ValidationKeySets : JoseVerify(validationKeys)
  \/ \E inx \in 1..Cardinality(SigningKeys) : SetProtectedAlg(inx, "")

SpecJose == InitJose /\ [][NextJose]_vars

(***************************************************************************)
(* The key vault store: save and get on a vault with a cache              *)
(***************************************************************************)
MaxVersions == 2

\* a private EC key as exported, a private RSA key, and a secret given as a
\* string
EcPrivateJwk == [kty |-> "EC", crv |-> "secp256k1", x |-> "x", y |-> "y", d |-> "d"]

RsaPrivateJwk ==
  [kty |-> "RSA", e |-> "e", n |-> "n", d |-> "d", p |-> "p", q |-> "q",
   dp |-> "dp", dq |-> "dq", qi |-> "qi"]

SavedKeys == {EcPrivateJwk, RsaPrivateJwk, [string |-> "ABEE"]}

KeyStoreOptionSets == [publicKeyOnly : BOOLEAN, latestVersion : BOOLEAN]

InitVault ==
  /\ self = [format |-> JweGeneralJson,
             options |-> [protected |-> NoHeader, unprotected |-> NoHeader,
                          contentEncryptionAlgorithm |-> Undefined]]
  /\ tok = [st |-> "new", v |-> NewToken, e |-> NoError, in |-> NoInput]
  /\ wire = [st |-> "none", src |-> "none", fmt |-> Undefined, text |-> NoWire, e |-> NoError]
  /\ parsed = [st |-> "none", v |-> NewToken, e |-> NoError]
  /\ plain = [st |-> "none", on |-> "none", ref |-> "none", v |-> <<>>, e |-> NoError]
  /\ NoCalls
  /\ NoBridge
  /\ NoPairwise
  /\ NoJose
  /\ NoVault
  /\ NoBuilder

\* keyStore.save(keyReference, key), while the vault holds fewer than
\* MaxVersions versions under the name
VaultSave(keyReference, key) ==
  LET r == vaultSave(vault, keyReference, key) IN
  /\ Len(vault.secrets[KeyName(keyReference)]) < MaxVersions
  /\ Len(vault.keys[KeyName(keyReference)]) < MaxVersions
  /\ vault' = [r.this EXCEPT
                 !.last = [op |-> "save", keyReference |-> keyReference, out |-> r.out]]
  /\ UNCHANGED vaultFrame

\* keyStore.get(keyReference, options), while it leaves the cache with at
\* most MaxVersions keys under the reference
VaultGet(keyReference, options) ==
  LET r == vaultGet(vault, keyReference, options) IN
  /\ Len(r.this.cache[keyReference]) <= MaxVersions
  /\ vault' = [r.this EXCEPT
                 !.last = [op |-> "get", keyReference |-> keyReference, out |-> r.out]]
  /\ UNCHANGED vaultFrame

NextVault ==
  \/ \E keyReference \in References, key \in SavedKeys : VaultSave(keyReference, key)
  \/ \E keyReference \in References, options \in KeyStoreOptionSets :
       VaultGet(keyReference, options)

SpecVault == InitVault /\ [][NextVault]_vars

(***************************************************************************)
(* The crypto builder under its use operations                            *)
(***************************************************************************)
MaxStores == 3

BuilderDids == {"did"}

BuilderKeyReferences == {[keyReference |-> "neo", type |-> "key"]}

BuilderKeyOptions == {[publicKeyOnly |-> TRUE, latestVersion |-> TRUE]}

BuilderAlgorithms == {"EdDSA"}

InitBuilder ==
  /\ self = [format |-> JweGeneralJson,
             options |-> [protected |-> NoHeader, unprotected |-> NoHeader,
                          contentEncryptionAlgorithm |-> Undefined]]
  /\ tok = [st |-> "new", v |-> NewToken, e |-> NoError, in |-> NoInput]
  /\ wire = [st |-> "none", src |-> "none", fmt |-> Undefined, text |-> NoWire, e |-> NoError]
  /\ parsed = [st |-> "none", v |-> NewToken, e |-> NoError]
  /\ plain = [st |-> "none", on |-> "none", ref |-> "none", v |-> <<>>, e |-> NoError]
  /\ NoCalls
  /\ NoBridge
  /\ NoPairwise
  /\ NoJose
  /\ NoVault
  /\ NoBuilder

\* a use operation that touches the builder's own fields only
Use(used) ==
  /\ builder' = [builder EXCEPT !.this = used]
  /\ UNCHANGED builderFrame

UseDid(did) == Use(useDid(builder.this, did))

UseRecoveryKeyReference(keyReference, options) ==
  Use(useRecoveryKeyReference(builder.this, keyReference, options))

UseUpdateKeyReference(keyReference, options) ==
  Use(useUpdateKeyReference(builder.this, keyReference, options))

UseSigningKeyReference(keyReference, options) ==
  Use(useSigningKeyReference(builder.this, keyReference, options))

UseSigningAlgorithm(algorithm) == Use(useSigningAlgorithm(builder.this, algorithm))

UseRecoveryAlgorithm(algorithm) == Use(useRecoveryAlgorithm(builder.this, algorithm))

UseUpdateAlgorithm(algorithm) == Use(useUpdateAlgorithm(builder.this, algorithm))

\* useCryptoFactory(new CryptoFactoryNode(keyStore, subtle)) with a factory
\* the caller built on a key store at hand
UseCryptoFactory(keyStore) ==
  /\ keyStore \in 1..Len(builder.stores)
  /\ Use(useCryptoFactory(builder.this, CryptoFactoryNode(keyStore)))

\* useCryptoFactory with a factory the caller built on a key store of its own
UseCryptoFactoryOnNewStore ==
  LET created == Len(builder.stores) + 1 IN
  /\ created <= MaxStores
  /\ builder' = [this |-> useCryptoFactory(builder.this, CryptoFactoryNode(created)),
                 stores |-> Append(builder.stores, NewKeyStore("KeyStoreInMemory"))]
  /\ UNCHANGED builderFrame

\* useKeyVault(credential, vaultUri): a key vault key store is created
UseKeyVault ==
  LET created == Len(builder.stores) + 1 IN
  /\ created <= MaxStores
  /\ builder' = [this |-> useKeyVault(builder.this, created),
                 stores |-> Append(builder.stores, NewKeyStore("KeyStoreKeyVault"))]
  /\ UNCHANGED builderFrame

\* builder.keyStore.save(keyReference, key)
SaveKey(keyReference) ==
  /\ builder' = [builder EXCEPT
                   !.stores[builder.this._keyStore].keys = @ \cup {keyReference}]
  /\ UNCHANGED builderFrame

NextBuilder ==
  \/ \E did \in BuilderDids : UseDid(did)
  \/ \E keyReference \in BuilderKeyReferences, options \in BuilderKeyOptions :
       UseRecoveryKeyReference(keyReference, options)
  \/ \E keyReference \in BuilderKeyReferences, options \in BuilderKeyOptions :
       UseUpdateKeyReference(keyReference, options)
  \/ \E keyReference \in BuilderKeyReferences, options \in BuilderKeyOptions :
       UseSigningKeyReference(keyReference, options)
  \/ \E algorithm \in BuilderAlgorithms : UseSigningAlgorithm(algorithm)
  \/ \E algorithm \in BuilderAlgorithms : UseRecoveryAlgorithm(algorithm)
  \/ \E algorithm \in BuilderAlgorithms : UseUpdateAlgorithm(algorithm)
  \/ \E keyStore \in 1..MaxStores : UseCryptoFactory(keyStore)
  \/ UseCryptoFactoryOnNewStore
  \/ UseKeyVault
  \/ \E keyReference \in BuilderKeyReferences : SaveKey(keyReference)

SpecBuilder == InitBuilder /\ [][NextBuilder]_vars

(***************************************************************************)
(* Properties                                                              *)
(***************************************************************************)
Range(q) == {q[i] : i \in 1..Len(q)}

\* the token the last decrypt ran on
Decrypted == IF plain.on = "tok" THEN tok.v ELSE parsed.v

\* the recipient entry can be unwrapped with the referenced key
CanUnwrap(t, inx, ref) == decryptContentEncryptionKey(t, t.recipients[inx], ref).ok

\* some recipient header carries the kid of the referenced key
KidMatch(t, ref) ==
  LET jwk == keyStoreGet(ref) IN
  /\ TruthyStr(jwk.kid)
  /\ \E inx \in 1..Len(t.recipients) :
       /\ t.recipients[inx].header.def
       /\ HeaderGet(t.recipients[inx].header.map, Kid) = jwk.kid

AllRsa(recipients) == \A inx \in 1..Len(recipients) : recipients[inx].kty = "RSA"

\* C1: a token encrypted to a non-empty list of RSA public keys decrypts,
\* under the key reference of any one of the recipients, to exactly the
\* payload that was encrypted
C1_EncryptDecryptRoundTrip ==
  (/\ plain.st # "none" /\ plain.on = "tok" /\ tok.st = "ok"
   /\ AllRsa(tok.in.recipients)
   /\ \E inx \in 1..Len(tok.in.recipients) : tok.in.recipients[inx].id = plain.ref)
  => (plain.st = "ok" /\ plain.v = tok.in.payload)

\* the header entries that have a value
Entries(h) == SelectSeq(h, DefinedEntry)

EntriesOf(mh) == IF mh.def THEN Entries(mh.map) ELSE <<>>

\* the format can carry every field of the token
CanRepresent(t, format) ==
  \/ format = JweGeneralJson
  \/ format = JweFlatJson /\ Len(t.recipients) = 1
  \/ /\ format = JweCompactJson
     /\ Len(t.recipients) = 1
     /\ Entries(t.unprotected) = <<>>
     /\ EntriesOf(t.recipients[1].header) = <<>>

SameFields(a, b) ==
  /\ Entries(a.protected) = Entries(b.protected)
  /\ Entries(a.unprotected) = Entries(b.unprotected)
  /\ a.iv = b.iv /\ a.aad = b.aad /\ a.ciphertext = b.ciphertext /\ a.tag = b.tag
  /\ Len(a.recipients) = Len(b.recipients)
  /\ \A inx \in 1..Len(a.recipients) :
       /\ inx <= Len(b.recipients)
       /\ a.recipients[inx].encrypted_key = b.recipients[inx].encrypted_key
       /\ EntriesOf(a.recipients[inx].header) = EntriesOf(b.recipients[inx].header)

\* C2: deserialize(serialize(format)) of a token produced by encrypt, in a
\* format that can represent it, yields a token equal to the original on the
\* protected, unprotected and per-recipient headers, iv, aad, ciphertext, tag
\* and every encrypted_key
C2_SerializeDeserializeRoundTrip ==
  (/\ parsed.st # "none" /\ wire.src = "serialize" /\ tok.st = "ok"
   /\ wire.fmt \in ProtectionFormat
   /\ CanRepresent(tok.v, wire.fmt))
  => (parsed.st = "ok" /\ SameFields(parsed.v, tok.v))

\* C3: when no recipient header kid equals the local key's kid, decrypt
\* succeeds whenever at least one recipient entry can be unwrapped with the
\* referenced key (a failing unwrap is skipped, the next recipient is tried)
C3_TrialDecryptionSkipsFailures ==
  (/\ plain.st # "none" /\ plain.on = "tok"
   /\ ~KidMatch(Decrypted, plain.ref)
   /\ \E inx \in 1..Len(Decrypted.recipients) : CanUnwrap(Decrypted, inx, plain.ref))
  => plain.st = "ok"

\* C4: when no recipient entry can be unwrapped with the referenced key (the
\* empty recipient list included), decrypt fails with ContentKeyUnrecoverable
\* and with no other error
C4_UnrecoverableContentKey ==
  (/\ plain.st # "none"
   /\ \A inx \in 1..Len(Decrypted.recipients) : ~CanUnwrap(Decrypted, inx, plain.ref))
  => (plain.st = "err" /\ plain.e = ContentKeyUnrecoverable)

\* C5: every token returned by deserialize has a non-empty ciphertext, a
\* non-empty iv and at least one recipient, each with a non-empty
\* encrypted_key
C5_DeserializedTokenIsComplete ==
  parsed.st = "ok" =>
    /\ parsed.v.ciphertext # EmptyBuf
    /\ parsed.v.iv # EmptyBuf
    /\ Len(parsed.v.recipients) >= 1
    /\ \A inx \in 1..Len(parsed.v.recipients) :
         parsed.v.recipients[inx].encrypted_key # EmptyBuf

\* C6: a General or Flat JSON token is accepted only if every recipient
\* resolves a key-encryption algorithm from its own header or from the
\* protected header
C6_AcceptedTokenResolvesAlg ==
  (parsed.st = "ok" /\ wire.text.shape = "json") =>
    \A inx \in 1..Len(parsed.v.recipients) :
      \/ TruthyStr(HeaderGet(parsed.v.recipients[inx].header.map, Alg))
      \/ TruthyStr(HeaderGet(parsed.v.protected, Alg))

FlatAlone == setFlatParts(NewToken, wire.text.obj)

GeneralAlone == setGeneralParts(NewToken, wire.text.obj)

\* C7: a JSON object that is a valid Flat token and that the General attempt
\* does not accept is returned as the token the Flat parse alone yields
C7_FlatFallbackAfterGeneral ==
  (/\ parsed.st # "none" /\ wire.text.shape = "json"
   /\ FlatAlone.ok /\ FlatAlone.val.result
   /\ ~(GeneralAlone.ok /\ GeneralAlone.val.result))
  => (parsed.st = "ok" /\ parsed.v = FlatAlone.val.token)

MandatoryFields == {"recipients", "encrypted_key", "ciphertext", "iv"}

\* C8: when both shapes reject a JSON token for a missing mandatory field,
\* the message of the error raised names the field the Flat parse misses
C8_ErrorNamesMissingField ==
  (/\ parsed.st = "err" /\ wire.text.shape = "json"
   /\ GeneralAlone.ok /\ ~GeneralAlone.val.result
   /\ FlatAlone.ok /\ ~FlatAlone.val.result)
  => \E f \in MandatoryFields :
       f \in Range(FlatAlone.val.reason) /\ f \in Range(parsed.e.msg)

\* C9: serialize with a format that is none of the three JWE formats fails
\* with an error whose message carries the requested format
C9_UnsupportedFormatNamesRequest ==
  (wire.src = "serialize" /\ wire.fmt \notin ProtectionFormat \cup {Undefined})
  => (wire.st = "err" /\ wire.fmt \in Range(wire.e.msg))

\* C10: Compact serialization succeeds only for a token with exactly one
\* recipient
C10_CompactNeedsOneRecipient ==
  (wire.src = "serialize" /\ wire.fmt = JweCompactJson /\ wire.st = "ok")
  => Len(tok.v.recipients) = 1

\* the key the content of the token was enciphered with
ContentKey(t) == t.tag.v[1].mac[1]

\* the entry is the content key wrapped under the public key, with the
\* key's kid in its header
WrappedFor(t, entry, publicKey) ==
  /\ entry.encrypted_key = Bytes(<<[wrap |-> ContentKey(t), under |-> publicKey.id]>>)
  /\ HeaderGet(entry.header.map, Kid) = publicKey.kid

\* C11: the token returned by encrypt has one recipient entry per public
\* key, in input order: entry i is the content key wrapped under
\* recipients[i] with the header kid of recipients[i]; the token read back
\* from its General JSON serialization has the same entries in the same order
C11_RecipientPerKeyInOrder ==
  tok.st = "ok" =>
    /\ Len(tok.v.recipients) = Len(tok.in.recipients)
    /\ \A inx \in 1..Len(tok.in.recipients) :
         /\ inx <= Len(tok.v.recipients)
         /\ tok.v.recipients[inx].header.def
         /\ WrappedFor(tok.v, tok.v.recipients[inx], tok.in.recipients[inx])
    /\ (wire.src = "serialize" /\ wire.fmt \in {JweGeneralJson, Undefined}
        /\ parsed.st # "none")
       => /\ parsed.st = "ok"
          /\ Len(parsed.v.recipients) = Len(tok.in.recipients)
          /\ \A inx \in 1..Len(tok.in.recipients) :
               /\ inx <= Len(parsed.v.recipients)
               /\ WrappedFor(tok.v, parsed.v.recipients[inx], tok.in.recipients[inx])

\* a token for several recipients, one of them without kid, read back from
\* General JSON
C11_Witness ==
  /\ tok.st = "ok" /\ Len(tok.in.recipients) >= 2
  /\ \E inx \in 1..Len(tok.in.recipients) : tok.in.recipients[inx].kid = Undefined
  /\ wire.src = "serialize" /\ wire.fmt = JweGeneralJson /\ parsed.st = "ok"

\* the output of the content cipher for the token: the payload enciphered
\* under the content key with the token's iv and the authenticated data
\* encrypt derives from the token's aad
CipherOutput(t, payload) ==
  encryptByJwkContent(
    jwaToWebCrypto(HeaderGet(t.protected, Enc), t.iv, Utf8(Base64UrlEncode(t.aad))).val,
    ContentKey(t), payload).val

\* C13: in the token returned by encrypt the tag is the last 16 bytes of the
\* cipher output and the ciphertext all bytes before them; ciphertext
\* followed by tag is the cipher output, and that concatenation is what
\* decrypt hands to the content decryption, which returns the payload
C13_TagIsLastSixteenBytes ==
  tok.st = "ok" =>
    LET out == CipherOutput(tok.v, tok.in.payload)
        n == Len(out)
    IN /\ tok.v.tag = Bytes(SubSeq(out, n - 16 + 1, n))
       /\ Len(tok.v.tag.v) = 16
       /\ tok.v.ciphertext = Bytes(SubSeq(out, 1, n - 16))
       /\ Len(tok.v.ciphertext.v) = Len(tok.in.payload)
       /\ BufferConcat(tok.v.ciphertext, tok.v.tag) = out
       /\ (plain.st # "none" /\ plain.on = "tok" /\ KidMatch(tok.v, plain.ref))
          => (plain.st = "ok" /\ plain.v = tok.in.payload)

\* a token with a non-empty payload decrypted by a recipient named by kid
C13_Witness ==
  /\ tok.st = "ok" /\ Len(tok.in.payload) >= 1
  /\ plain.st = "ok" /\ plain.on = "tok" /\ KidMatch(tok.v, plain.ref)

\* C14: encrypt leaves the token it is called on unchanged: no field of the
\* receiver differs after the call (of the receiver's fields encrypt assigns
\* only format; the others keep the values of construction)
C14_ReceiverUnchanged == [][self'.format = self.format]_vars

\* C15: encrypt leaves the caller's header values alone: the protected and
\* unprotected maps of the options hold the same entries after the call as
\* before
C15_OptionHeadersUnchanged ==
  [][/\ self'.options.protected = self.options.protected
     /\ self'.options.unprotected = self.options.unprotected]_vars

\* the calls that have returned a token
Returned == {c \in Calls : calls[c].pc = "returned"}

\* what encrypt yields for the arguments of call c when it runs from the
\* options the call found, with no other call in flight
RunAlone(c) ==
  encrypt([format |-> calls[c].format, options |-> calls[c].options],
          calls[c].recipients, calls[c].payload,
          calls[c].contentEncryptionKey, calls[c].jweToken.iv).out

\* the additional authenticated data decrypt derives from a token
DecryptAad(t) == Utf8(Base64UrlEncode(t.aad))

\* the additional authenticated data encrypt gave to the content cipher: the
\* tag is computed over it
EncryptAad(t) == t.tag.v[1].mac[3]

\* the token read back from its serialization
ReadBack(t, format) ==
  LET text == serialize(t, format) IN IF text.ok THEN deserialize(text.val) ELSE text

AadMatchesHeader(c) ==
  LET t == TokenOf(c)
      publicKey == calls[c].recipients[FirstOaep256(calls[c].recipients, 1)]
  IN /\ t.aad = Base64UrlToBuffer(encodeHeader(t.protected, TRUE)).val
     /\ HeaderGet(t.protected, Alg) = calls[c].keyEncryptionAlgorithm
     /\ HeaderGet(t.protected, Enc) = calls[c].contentEncryptionAlgorithm
     /\ TruthyStr(publicKey.kid) => HeaderGet(t.protected, Kid) = publicKey.kid

AadAsEncrypted(c) ==
  LET t == TokenOf(c) IN
  /\ DecryptAad(t) = EncryptAad(t)
  /\ \A format \in ProtectionFormat :
       ReadBack(t, format).ok => DecryptAad(ReadBack(t, format).val) = EncryptAad(t)

\* C12: in every token returned by encrypt the aad is the encoded protected
\* header of that token (with alg, enc and the kid of the key that has one),
\* and the additional authenticated data decrypt derives from the token is
\* the one encrypt gave to the content cipher, also for the token read back
\* from any of the three serializations
C12_AadIsProtectedHeader ==
  \A c \in Returned : AadMatchesHeader(c) /\ AadAsEncrypted(c)

\* the token call c returned is what the call yields when run alone, its aad
\* is its encoded protected header, and a recipient named by kid decrypts it
\* to the payload
AsIfAlone(c) ==
  LET t == calls[c].result IN
  /\ RunAlone(c).ok /\ t = RunAlone(c).val
  /\ t.aad = Base64UrlToBuffer(encodeHeader(t.protected, TRUE)).val
  /\ \A ref \in KeyReferences :
       KidMatch(t, ref) => decrypt(t, ref) = Ok(calls[c].payload)

\* C16: with two encrypt calls in flight on the same token and options,
\* interleaved at their awaits, each token is, as it is returned, the token
\* its call yields when run alone: its protected header (alg, enc, kid) is
\* the one its aad encodes, and it decrypts
C16_InterleavedCallsAreIsolated == \A c \in Returned : AsIfAlone(c)

\* the ids jwaToWebCrypto knows, in upper case
SupportedIds ==
  {"RS256", "RS384", "RS512", "RSA-OAEP", "RSA-OAEP-256", "A128GCM", "A192GCM", "A256GCM",
   "ES256K", "EDDSA", "SHA-256", "SHA-384", "SHA-512", "HS256", "HS384", "HS512"}

\* the descriptor names webCryptoToJwa knows, in upper case
SupportedNames ==
  {"RSASSA-PKCS1-V1_5", "ECDSA", "EDDSA", "RSA-OAEP", "RSA-OAEP-256", "AES-GCM", "HMAC",
   "SHA-256", "SHA-384", "SHA-512"}

\* the descriptor's name is none of the supported ones (a descriptor without
\* name included)
NameUnsupported(algorithm) ==
  algorithm.name = Undefined \/ ToUpperCase(algorithm.name) \notin SupportedNames

\* the outcome is the unsupported-algorithm error and its message carries id
UnsupportedAlgorithm(out, id) ==
  /\ ~out.ok
  /\ out.err.type = "Error"
  /\ "' is not supported" \in Range(out.err.msg)
  /\ id \in Range(out.err.msg)

\* C17: jwaToWebCrypto of an id outside the supported set, and webCryptoToJwa
\* of a descriptor whose name is outside the supported set, fail with the
\* unsupported-algorithm error carrying the offending identifier (the id as
\* jwaToWebCrypto reads it, in upper case); neither returns a descriptor or id
C17_UnsupportedIdentifierFails ==
  /\ (bridge.op = "jwaToWebCrypto" /\ ToUpperCase(bridge.jwa) \notin SupportedIds)
     => UnsupportedAlgorithm(bridge.out, ToUpperCase(bridge.jwa))
  /\ (bridge.op = "webCryptoToJwa" /\ NameUnsupported(bridge.algorithm))
     => UnsupportedAlgorithm(bridge.out, bridge.algorithm.name)

\* C18: for every compact id of the wire, webCryptoToJwa of the descriptor
\* jwaToWebCrypto returns for the id is the id
C18_WireIdRoundTrip ==
  (bridge.op = "webCryptoToJwa" /\ bridge.given = "jwa" /\ bridge.jwa \in WireIds)
  => bridge.out = Ok(bridge.jwa)

\* the capability kind the algorithm name stands for
KindOfName(name) ==
  CASE name \in {"RSASSA-PKCS1-V1_5", "ECDSA", "EDDSA"} -> "MessageSigner"
    [] name \in {"RSA-OAEP", "RSA-OAEP-256"} -> "KeyEncrypter"
    [] name = "AES-GCM" -> "SymmetricEncrypter"
    [] name = "HMAC" -> "MessageAuthenticationCodeSigner"
    [] name \in {"SHA-256", "SHA-384", "SHA-512"} -> "MessageDigest"
    [] OTHER -> "none"

\* C19: getSubtleCryptoForAlgorithm picks the capability kind from the
\* algorithm name alone, whatever its case, and hands the caller's scope and
\* key reference on unchanged; for any other name it fails and asks the
\* factory for nothing
C19_KindFromNameAlone ==
  bridge.op = "getSubtleCryptoForAlgorithm" =>
    IF NameUnsupported(bridge.algorithm) THEN ~bridge.out.ok
    ELSE /\ bridge.out.ok
         /\ bridge.out.val.kind = KindOfName(ToUpperCase(bridge.algorithm.name))
         /\ bridge.out.val.scope = bridge.scope
         /\ bridge.out.val.keyReference = bridge.keyReference





\* the key store holding the one seed and a session with nothing cached
Afresh(seed) == [NoSession EXCEPT !.seeds = [r \in SeedReferences |-> seed]]

\* the outcome of the last call is the outcome of the same call made first
\* in a new session on the seed it was made against
AsDerivedAfresh ==
  LET last == pairwise.last IN
  /\ last.op = "generatePersonaMasterKey" =>
       \A seedReference \in SeedReferences :
         last.out = generatePersonaMasterKey(Afresh(last.seed), seedReference,
                                             last.persona).out
  /\ last.op = "generatePairwiseKey" =>
       \A seedReference \in SeedReferences :
         last.out = generatePairwiseKey(Afresh(last.seed), last.algorithm,
                                        seedReference, last.persona, last.peer).out

\* C20: pairwise derivation is deterministic: a call of generatePairwiseKey
\* with the algorithm, persona and peer of the call before it against the same
\* stored seed, and a call of generatePersonaMasterKey with the seed and
\* persona of the call before it, has the outcome of the call before it; and
\* every call has the outcome the same call has in a new session, whatever was
\* saved, cached or derived before and whatever counter values the expansions
\* reached.
C20_DerivationIsDeterministic ==
  /\ pairwise.last.again => pairwise.last.out = pairwise.last.before
  /\ AsDerivedAfresh

\* an EC key derived twice in a row, the second time after a rejected
\* candidate and from a master key taken from the cache
C20_Witness ==
  /\ pairwise.last.op = "generatePairwiseKey"
  /\ pairwise.last.again
  /\ pairwise.last.out.ok /\ pairwise.last.out.val.kty = "EC"
  /\ pairwise.last.cached
  /\ pairwise.last.counter > 0


\* the pairwise key the call gives in a new session on the seed
DerivedAfresh(algorithm, seed, persona, peer) ==
  generatePairwiseKey(Afresh(seed), algorithm, CHOOSE r \in SeedReferences : TRUE,
                      persona, peer).out

\* every cached master key is the one of its own seed and persona
CacheKeepsLabels ==
  \A m \in pairwise.masterKeys : m.key = Hmac(m.seed, Label(m.persona))

\* C21: under a fixed seed distinct labels give distinct keys: the key a
\* generatePairwiseKey call returns differs from the key of the call before it
\* when the two differ in the persona alone or in the peer alone, and from the
\* key of every other persona with the same peer and of every other peer with
\* the same persona; a cached master key is the key of the seed and persona
\* it is cached under.
C21_DistinctLabelsDistinctKeys ==
  LET last == pairwise.last IN
  /\ CacheKeepsLabels
  /\ (last.op = "generatePairwiseKey" /\ last.out.ok) =>
       /\ (last.varied # "none" /\ last.before.ok) => last.out # last.before
       /\ \A persona \in Personas \ {last.persona} :
            DerivedAfresh(last.algorithm, last.seed, persona, last.peer) # last.out
       /\ \A peer \in Peers \ {last.peer} :
            DerivedAfresh(last.algorithm, last.seed, last.persona, peer) # last.out

\* a key derived for another persona than the call before it, in a session
\* that has cached the master keys of both personas
C21_Witness ==
  /\ pairwise.last.op = "generatePairwiseKey"
  /\ pairwise.last.out.ok
  /\ pairwise.last.varied = "persona"
  /\ pairwise.last.before.ok
  /\ pairwise.last.cached
  /\ \A persona \in Personas :
       \E m \in pairwise.masterKeys : m.seed = pairwise.last.seed /\ m.persona = persona


\* the last call asked for a key family other than EC and RSA
OtherKeyFamily ==
  pairwise.last.algorithm.name \notin {"ECDSA", "EdDSA", "RSASSA-PKCS1-v1_5"}

\* the last call asked for an EC key on a curve other than secp256k1
OtherCurve ==
  /\ pairwise.last.algorithm.name \in {"ECDSA", "EdDSA"}
  /\ pairwise.last.algorithm.namedCurve # "secp256k1"

\* the state after a generatePairwiseKey call: the key family and the curve
\* asked for decide the error, and an error comes without a key
RejectedByAlgorithm ==
  pairwise.last.op = "generatePairwiseKey" =>
    /\ OtherKeyFamily =>
         /\ ~pairwise.last.out.ok
         /\ pairwise.last.out.err.msg
              = <<"Pairwise key for type '", "oct", "' is not supported.">>
    /\ OtherCurve =>
         /\ ~pairwise.last.out.ok
         /\ pairwise.last.out.err.msg
              = <<"Curve ", pairwise.last.algorithm.namedCurve, " is not supported">>
    /\ pairwise.last.out.ok <=> ~OtherKeyFamily /\ ~OtherCurve

\* a step that makes a rejected generatePairwiseKey call the last call
RejectingStep ==
  /\ pairwise'.last # pairwise.last
  /\ pairwise'.last.op = "generatePairwiseKey"
  /\ ~pairwise'.last.out.ok

LastScalar == pairwise.last.out.val.d

\* the candidate of the last call at a counter value
CandidateAt(n) ==
  Hmac(Hmac(Hmac(pairwise.last.seed, Label(pairwise.last.persona)),
            Label(pairwise.last.peer)),
       Counter(n))

ReturnedEcKey ==
  /\ pairwise.last.op = "generatePairwiseKey"
  /\ pairwise.last.out.ok
  /\ pairwise.last.out.val.kty = "EC"

RoundTripped ==
  /\ jose.last.op = "deserialize"
  /\ jose.wire.st = "ok"
  /\ jose.last.format = jose.wire.fmt
  /\ Len(jose.wire.of.signatures) = 1

\* C24: for a signed token with one signature and each of the formats General
\* JSON, Flat JSON and Compact, deserialize of the serialized token succeeds
\* and gives one signature entry with the protected header and the signature
\* bytes of the token's entry, the token's payload, and for General and Flat
\* JSON the entries of the unprotected header.
C24_JwsRoundTrip ==
  RoundTripped =>
    /\ jose.last.out.ok
    /\ LET t == jose.wire.of
           d == jose.last.out.val
       IN /\ Len(d.signatures) = 1
          /\ d.signatures[1].protected = t.signatures[1].protected
          /\ d.signatures[1].signature = t.signatures[1].signature
          /\ d.payload = t.payload
          /\ jose.wire.fmt \in {JwsGeneralJson, JwsFlatJson} =>
               EntriesOf(d.signatures[1].header) = EntriesOf(t.signatures[1].header)

\* a token signed with an unprotected header, serialized as Flat JSON and
\* deserialized
C24_Witness ==
  /\ RoundTripped
  /\ jose.wire.fmt = JwsFlatJson
  /\ jose.last.out.ok
  /\ EntriesOf(jose.wire.of.signatures[1].header) # <<>>


\* a signature entry with no algorithm in its own header nor in its
\* protected header (an empty value is no algorithm)
LacksAlgorithm(s) ==
  /\ ~(s.header.def /\ TruthyStr(HeaderGet(s.header.map, Alg)))
  /\ ~TruthyStr(HeaderGet(s.protected, Alg))

\* the last operation was a verify of the token the object holds
Verified == jose.last.op = "verify" /\ jose.object.state = "Deserialized"

\* C25: verify of a token with a signature entry that has no algorithm in its
\* own header nor in its protected header, an empty alg value included, fails
\* with the MissingAlgorithm error; it answers neither true nor false.  A
\* verify that fails does so with that error and on such a token only.
C25_MissingAlgorithmFails ==
  Verified =>
    LET sigs == jose.object.token.signatures
        lacking == \E inx \in 1..Len(sigs) : LacksAlgorithm(sigs[inx])
    IN /\ lacking => /\ jose.last.out = MissingAlgorithm
                     /\ jose.last.out # Ok(TRUE)
                     /\ jose.last.out # Ok(FALSE)
       /\ ~lacking => jose.last.out.ok

\* verify of a token with two signatures: no candidate key verifies the first
\* one, the second one has an empty alg, and verify fails
C25_Witness ==
  /\ Verified
  /\ Len(jose.object.token.signatures) = 2
  /\ ~LacksAlgorithm(jose.object.token.signatures[1])
  /\ jose.object.token.signatures[1].signature.key \notin {k.id : k \in jose.last.keys}
  /\ HeaderGet(jose.object.token.signatures[2].protected, Alg) = ""
  /\ LacksAlgorithm(jose.object.token.signatures[2])
  /\ ~jose.last.out.ok


\* nothing was signed or deserialized on the object since it was built
HoldsNoToken == ~jose.object.wasSigned /\ ~jose.object.wasDeserialized

CachedUnder(keyReference) ==
  {vault.cache[keyReference][i] : i \in 1..Len(vault.cache[keyReference])}

\* C27: after any sequence of save and get, no key the cache holds under a
\* reference of storage class 'key' has a private member (d, p, q, dp, dq,
\* qi): save with such a reference writes the public key only.
C27_CacheHoldsPublicOnly ==
  \A keyReference \in References :
    keyReference.type = KEYS =>
      \A key \in CachedUnder(keyReference) : DOMAIN key \cap PrivateMembers = {}


\* the capability kind a compact id belongs to
FamilyOfId(jwa) ==
  CASE jwa \in {"RS256", "RS384", "RS512", "ES256K", "EDDSA"} -> "MessageSigner"
    [] jwa \in {"RSA-OAEP", "RSA-OAEP-256"} -> "KeyEncrypter"
    [] jwa \in {"A128GCM", "A192GCM", "A256GCM"} -> "SymmetricEncrypter"
    [] jwa \in {"HS256", "HS384", "HS512"} -> "MessageAuthenticationCodeSigner"
    [] jwa \in {"SHA-256", "SHA-384", "SHA-512"} -> "MessageDigest"
    [] OTHER -> "none"

\* C28: for every compact id jwaToWebCrypto supports, the digests SHA-256,
\* SHA-384 and SHA-512 included, getSubtleCryptoForAlgorithm of the descriptor
\* jwaToWebCrypto returns for the id raises no error and asks the factory for
\* the capability kind of the id's family.
C28_ReturnedDescriptorResolves ==
  (bridge.op = "getSubtleCryptoForAlgorithm" /\ bridge.given = "jwa")
  => /\ bridge.out.ok
     /\ bridge.out.val.kind = FamilyOfId(ToUpperCase(bridge.jwa))


\* the text at hand is the outcome of serialize() without an argument on the
\* token encrypt returned
SerializedAsIs == wire.src = "serialize" /\ wire.fmt = Undefined

\* C29: the token encrypt(recipients, payload, format) returns has the format
\* requested, and serialize() on it without an argument gives what serialize
\* in the requested format gives.
C29_ReturnedTokenKeepsFormat ==
  tok.st = "ok" =>
    /\ tok.v.format = tok.in.format
    /\ SerializedAsIs =>
         LET r == serialize(tok.v, tok.in.format) IN
         /\ wire.st = (IF r.ok THEN "ok" ELSE "err")
         /\ wire.text = (IF r.ok THEN r.val ELSE NoWire)


\* the keys saved through a key store
SavedThrough(keyStore) == builder.stores[keyStore].keys

\* C30: in every state of a builder reached by its use operations, the
\* builder's key store is the key store its crypto factory is built on: the
\* keys saved through the builder's key store are the keys of the factory's
\* key store.
C30_BuilderAndFactoryShareKeyStore ==
  /\ builder.this._keyStore = builder.this._cryptoFactory.keyStore
  /\ SavedThrough(builder.this._keyStore)
       = SavedThrough(builder.this._cryptoFactory.keyStore)

\* a builder given a factory on another key store after it was on a key
\* vault, with a key saved through its key store since
C30_Witness ==
  /\ Len(builder.stores) = 3
  /\ builder.stores[2].class = "KeyStoreKeyVault"
  /\ builder.this._cryptoFactory = CryptoFactoryNode(3)
  /\ SavedThrough(3) # {}
  /\ SavedThrough(2) # {}

====
